---- MODULE Spec2Model ----
(***************************************************************************)
(* Raceway Python SDK: per-execution causal Context, vector clock,         *)
(* propagation headers (emit / ingest), event capture, and the event       *)
(* buffer with its flush threads, timer thread and shutdown.               *)
(*                                                                         *)
(* Strings that the code takes apart (trace ids, span ids, traceparent)    *)
(* are sequences of one-character strings.  A Python None of such a field  *)
(* is the empty sequence; an absent event id is 0.                         *)
(***************************************************************************)
EXTENDS Integers, Sequences, FiniteSets, TLC

\* ------------------------------------------------------------------ bounds
\* Spec: services that call each other
MaxContexts == 3
MaxEvents == 3
MaxEmissions == 2

\* SpecTracker: the Tracker API on one execution unit
TrackerEvents == 3
TrackerEmissions == 2

\* SpecNoContext: API calls of an execution unit that has no Context bound
NoContextEvents == 2
NoContextCalls == 2

\* SpecIngest: requests from outside entering a service
IngestRequests == 2

\* SpecShipper, SpecShipperLive: one unit capturing events, the flush threads
ShipperEvents == 3

\* Config.batch_size of every client
batch_size == 2

ShutdownCalls == 1

StoppingEvents == 2

RequestEvents == 2

RequestCalls == 2

FunctionContexts == 1

FunctionEvents == 2

FunctionDepth == 2

ScopeContexts == 2

ScopeEvents == 3

ScopeCalls == 2

ScopeDepth == 2

SharedEvents == 3

HolderEvents == 4

DecoratorEvents == 4

DecoratorDepth == 2

\* ------------------------------------------------------- configuration
\* Config.service_name of the two clients (processes) of the model
Services == {"a", "b"}

\* RacewayClient.instance_id (the same for both clients)
InstanceId == "1"

NoEvent == 0

NoSpan == << >>

NoTrace == << >>

NoState == ""

\* ------------------------------------------------------------ characters
HexDigits == <<"0","1","2","3","4","5","6","7","8","9","a","b","c","d","e","f">>

HexChars == {"0","1","2","3","4","5","6","7","8","9",
             "a","b","c","d","e","f","A","B","C","D","E","F"}

HexChar(n) == HexDigits[(n % 16) + 1]

\* str.lower() on one character (hex letters are the only letters used)
LowerChar(c) ==
    CASE c = "A" -> "a" [] c = "B" -> "b" [] c = "C" -> "c"
      [] c = "D" -> "d" [] c = "E" -> "e" [] c = "F" -> "f"
      [] OTHER -> c

Lower(s) == [i \in 1..Len(s) |-> LowerChar(s[i])]

Chars(S, s) == \A i \in 1..Len(s) : s[i] \in S

\* str.ljust(n, "0")[:n]
LjustCut(s, n) == [i \in 1..n |-> IF i <= Len(s) THEN s[i] ELSE "0"]

\* str(uuid.uuid4()): canonical 8-4-4-4-12 form; n names the random draw
Uuid(n) ==
    [i \in 1..36 |->
        IF i \in {9, 14, 19, 24} THEN "-"
        ELSE IF i = 36 THEN HexChar(n)
        ELSE IF i = 35 THEN HexChar(n \div 16)
        ELSE IF i = 1 THEN "f"
        ELSE "0"]

\* secrets.token_hex(8): 16 lower-case hex digits; n names the random draw
_generate_span_id(n) ==
    [i \in 1..16 |->
        IF i = 16 THEN HexChar(n)
        ELSE IF i = 15 THEN HexChar(n \div 16)
        ELSE IF i = 1 THEN "5"
        ELSE "0"]

\* str.split(sep): the pieces of s between occurrences of sep
RECURSIVE SplitFrom(_, _, _, _)
SplitFrom(s, sep, i, cur) ==
    IF i > Len(s) THEN << cur >>
    ELSE IF s[i] = sep THEN << cur >> \o SplitFrom(s, sep, i + 1, << >>)
    ELSE SplitFrom(s, sep, i + 1, Append(cur, s[i]))

Split(s, sep) == SplitFrom(s, sep, 1, << >>)

\* ----------------------------------------------------- trace_context.py
TRACEPARENT_HEADER == "traceparent"

TRACESTATE_HEADER == "tracestate"

RACEWAY_CLOCK_HEADER == "raceway-clock"

TRACEPARENT_VERSION == <<"0", "0">>

TRACE_FLAGS == <<"0", "1">>

CLOCK_VERSION_PREFIX == "v1;"

_clock_component(service_name, instance_id) == <<service_name, "#", instance_id>>

_uuid_to_traceparent(value) == LjustCut(SelectSeq(value, LAMBDA c : c # "-"), 32)

_traceparent_to_uuid(value) ==
    SubSeq(value, 1, 8) \o <<"-">> \o SubSeq(value, 9, 12) \o <<"-">>
      \o SubSeq(value, 13, 16) \o <<"-">> \o SubSeq(value, 17, 20) \o <<"-">>
      \o SubSeq(value, 21, 32)

\* str.strip(): the blank is the only whitespace character of the model
RECURSIVE LStrip(_)
LStrip(s) == IF s # << >> /\ Head(s) = " " THEN LStrip(Tail(s)) ELSE s

RECURSIVE RStrip(_)
RStrip(s) ==
    IF s # << >> /\ s[Len(s)] = " " THEN RStrip(SubSeq(s, 1, Len(s) - 1)) ELSE s

Strip(s) == RStrip(LStrip(s))

\* digits of a Python integer literal: hex digits, single underscores only
\* between two digits (or, after_prefix, right after the 0x prefix)
RECURSIVE IntDigits(_, _)
IntDigits(s, after_digit) ==
    IF s = << >> THEN after_digit
    ELSE IF Head(s) \in HexChars THEN IntDigits(Tail(s), TRUE)
    ELSE IF Head(s) = "_"
    THEN after_digit /\ Len(s) >= 2 /\ s[2] \in HexChars /\ IntDigits(Tail(s), FALSE)
    ELSE FALSE

\* int(value, 16) does not raise ValueError: surrounding whitespace, a sign
\* and a 0x / 0X prefix are accepted before the digits
Int16Parses(value) ==
    LET stripped == Strip(value)
        unsigned == IF stripped # << >> /\ Head(stripped) \in {"+", "-"}
                    THEN Tail(stripped) ELSE stripped
        prefixed == Len(unsigned) >= 2 /\ unsigned[1] = "0" /\ unsigned[2] \in {"x", "X"}
    IN  \/ IntDigits(unsigned, FALSE)
        \/ prefixed /\ Len(unsigned) >= 3
              /\ \/ IntDigits(SubSeq(unsigned, 3, Len(unsigned)), FALSE)
                 \/ /\ unsigned[3] = "_"
                    /\ IntDigits(SubSeq(unsigned, 4, Len(unsigned)), FALSE)

_is_hex(value, expected_length) ==
    Len(value) = expected_length /\ Int16Parses(value)

\* json.dumps / json.loads: the text stands for the serialised value; `type`
\* is the Python type json.loads gives back for it (the SDK serialises a dict)
json_dumps(payload) == [syntax |-> "json", type |-> "dict", value |-> payload]

json_loads(text) == text.value

\* json.loads(text) raises json.JSONDecodeError
JSONDecodeError(text) == text.syntax # "json"

\* dict.get(key, default)
Get(payload, key, default) == IF key \in DOMAIN payload THEN payload[key] ELSE default

\* base64url without padding / with the padding restored
_encode_base64url(text) == [alphabet |-> "base64url", text |-> text]

_decode_base64url(encoded) == encoded.text

\* _decode_base64url(encoded) raises binascii.Error or UnicodeDecodeError
DecodeError(encoded) == encoded.alphabet # "base64url"

\* increment_clock_vector that bumps every component, not only its own
increment_clock_vector_all(clock_vector, service_name, instance_id) ==
    LET component == _clock_component(service_name, instance_id)
        updated == [k \in 1..Len(clock_vector) |->
                      <<clock_vector[k][1], clock_vector[k][2] + 1>>]
        found == \E k \in 1..Len(clock_vector) : clock_vector[k][1] = component
    IN  IF found THEN updated ELSE Append(updated, <<component, 1>>)

increment_clock_vector(clock_vector, service_name, instance_id) ==
    LET component == _clock_component(service_name, instance_id)
        updated == [k \in 1..Len(clock_vector) |->
                      IF clock_vector[k][1] = component
                      THEN <<clock_vector[k][1], clock_vector[k][2] + 1>>
                      ELSE clock_vector[k]]
        found == \E k \in 1..Len(clock_vector) : clock_vector[k][1] = component
    IN  IF found THEN updated ELSE Append(updated, <<component, 1>>)

_parse_traceparent(value) ==
    LET parts == Split(Strip(value), "-")
    IN  IF Len(parts) # 4
        THEN [ok |-> FALSE, trace_id |-> NoTrace, span_id |-> NoSpan]
        ELSE IF ~_is_hex(parts[2], 32) \/ ~_is_hex(parts[3], 16)
        THEN [ok |-> FALSE, trace_id |-> NoTrace, span_id |-> NoSpan]
        ELSE [ok |-> TRUE,
              trace_id |-> _traceparent_to_uuid(parts[2]),
              span_id |-> Lower(parts[3])]

\* the result of a header parser that returns None
Ignored == [ok |-> FALSE, error |-> "", trace_id |-> NoTrace, parent_span_id |-> NoSpan, clock |-> << >>]

\* error: the exception that leaves the function, "" if none
_parse_raceway_clock(value) ==
    IF value.prefix # CLOCK_VERSION_PREFIX THEN Ignored
    ELSE IF DecodeError(value.encoded) THEN Ignored
    ELSE IF JSONDecodeError(_decode_base64url(value.encoded)) THEN Ignored
    ELSE IF _decode_base64url(value.encoded).type # "dict"
    THEN [Ignored EXCEPT !.error = "AttributeError"]
    ELSE LET payload == json_loads(_decode_base64url(value.encoded))
         IN  [ok |-> TRUE,
              error |-> "",
              trace_id |-> Get(payload, "trace_id", NoTrace),
              parent_span_id |-> Get(payload, "span_id", NoSpan),
              clock |-> SelectSeq(Get(payload, "clock", << >>),
                                  LAMBDA item : Len(item) = 2)]

HasHeader(headers, name) == name \in DOMAIN headers

\* parse_incoming_headers that takes the span of the traceparent as its own span
parse_incoming_headers_upstream_span(headers, service_name, instance_id, fresh_trace, fresh_span) ==
    LET tp == IF HasHeader(headers, TRACEPARENT_HEADER)
                   /\ headers[TRACEPARENT_HEADER] # << >>
              THEN _parse_traceparent(headers[TRACEPARENT_HEADER])
              ELSE [ok |-> FALSE, trace_id |-> NoTrace, span_id |-> NoSpan]
        rc == IF HasHeader(headers, RACEWAY_CLOCK_HEADER)
              THEN _parse_raceway_clock(headers[RACEWAY_CLOCK_HEADER])
              ELSE Ignored
        trace1 == IF tp.ok THEN tp.trace_id ELSE fresh_trace
        parent1 == IF tp.ok THEN tp.span_id ELSE NoSpan
        trace2 == IF rc.ok /\ rc.trace_id # NoTrace THEN rc.trace_id ELSE trace1
        parent2 == IF rc.ok /\ parent1 = NoSpan /\ rc.parent_span_id # NoSpan
                   THEN rc.parent_span_id ELSE parent1
        clock1 == IF rc.ok THEN rc.clock ELSE << >>
        component_id == _clock_component(service_name, instance_id)
        clock2 == IF \E k \in 1..Len(clock1) : clock1[k][1] = component_id
                  THEN clock1 ELSE Append(clock1, <<component_id, 0>>)
    IN  [trace_id |-> trace2,
         span_id |-> IF tp.ok THEN tp.span_id ELSE fresh_span,
         parent_span_id |-> parent2,
         tracestate |-> IF HasHeader(headers, TRACESTATE_HEADER)
                        THEN headers[TRACESTATE_HEADER] ELSE NoState,
         clock_vector |-> clock2,
         distributed |-> tp.ok \/ rc.ok,
         error |-> rc.error]

\* parse_incoming_headers that does not adopt the clock of the payload
parse_incoming_headers_no_clock(headers, service_name, instance_id, fresh_trace, fresh_span) ==
    LET tp == IF HasHeader(headers, TRACEPARENT_HEADER)
                   /\ headers[TRACEPARENT_HEADER] # << >>
              THEN _parse_traceparent(headers[TRACEPARENT_HEADER])
              ELSE [ok |-> FALSE, trace_id |-> NoTrace, span_id |-> NoSpan]
        rc == IF HasHeader(headers, RACEWAY_CLOCK_HEADER)
              THEN _parse_raceway_clock(headers[RACEWAY_CLOCK_HEADER])
              ELSE Ignored
        trace1 == IF tp.ok THEN tp.trace_id ELSE fresh_trace
        parent1 == IF tp.ok THEN tp.span_id ELSE NoSpan
        trace2 == IF rc.ok /\ rc.trace_id # NoTrace THEN rc.trace_id ELSE trace1
        parent2 == IF rc.ok /\ parent1 = NoSpan /\ rc.parent_span_id # NoSpan
                   THEN rc.parent_span_id ELSE parent1
        clock1 == << >>
        component_id == _clock_component(service_name, instance_id)
        clock2 == IF \E k \in 1..Len(clock1) : clock1[k][1] = component_id
                  THEN clock1 ELSE Append(clock1, <<component_id, 0>>)
    IN  [trace_id |-> trace2,
         span_id |-> fresh_span,
         parent_span_id |-> parent2,
         tracestate |-> IF HasHeader(headers, TRACESTATE_HEADER)
                        THEN headers[TRACESTATE_HEADER] ELSE NoState,
         clock_vector |-> clock2,
         distributed |-> tp.ok \/ rc.ok,
         error |-> rc.error]

\* fresh_trace, fresh_span: the uuid4() and token_hex(8) drawn by this call
parse_incoming_headers(headers, service_name, instance_id, fresh_trace, fresh_span) ==
    LET tp == IF HasHeader(headers, TRACEPARENT_HEADER)
                   /\ headers[TRACEPARENT_HEADER] # << >>
              THEN _parse_traceparent(headers[TRACEPARENT_HEADER])
              ELSE [ok |-> FALSE, trace_id |-> NoTrace, span_id |-> NoSpan]
        rc == IF HasHeader(headers, RACEWAY_CLOCK_HEADER)
              THEN _parse_raceway_clock(headers[RACEWAY_CLOCK_HEADER])
              ELSE Ignored
        trace1 == IF tp.ok THEN tp.trace_id ELSE fresh_trace
        parent1 == IF tp.ok THEN tp.span_id ELSE NoSpan
        trace2 == IF rc.ok /\ rc.trace_id # NoTrace THEN rc.trace_id ELSE trace1
        parent2 == IF rc.ok /\ parent1 = NoSpan /\ rc.parent_span_id # NoSpan
                   THEN rc.parent_span_id ELSE parent1
        clock1 == IF rc.ok THEN rc.clock ELSE << >>
        component_id == _clock_component(service_name, instance_id)
        clock2 == IF \E k \in 1..Len(clock1) : clock1[k][1] = component_id
                  THEN clock1 ELSE Append(clock1, <<component_id, 0>>)
    IN  [trace_id |-> trace2,
         span_id |-> fresh_span,
         parent_span_id |-> parent2,
         tracestate |-> IF HasHeader(headers, TRACESTATE_HEADER)
                        THEN headers[TRACESTATE_HEADER] ELSE NoState,
         clock_vector |-> clock2,
         distributed |-> tp.ok \/ rc.ok,
         error |-> rc.error]

\* child_span_id: the token_hex(8) drawn by this call
build_propagation_headers(trace_id, current_span_id, tracestate, clock_vector, service_name, instance_id, child_span_id) ==
    LET next_clock_vector ==
            increment_clock_vector(clock_vector, service_name, instance_id)
        traceparent == TRACEPARENT_VERSION \o <<"-">> \o _uuid_to_traceparent(trace_id)
                         \o <<"-">> \o child_span_id \o <<"-">> \o TRACE_FLAGS
        payload == [trace_id |-> trace_id,
                    span_id |-> child_span_id,
                    parent_span_id |-> current_span_id,
                    service |-> service_name,
                    instance |-> instance_id,
                    clock |-> next_clock_vector]
        raceway_clock == [prefix |-> CLOCK_VERSION_PREFIX,
                          encoded |-> _encode_base64url(json_dumps(payload))]
        base == (TRACEPARENT_HEADER :> traceparent)
                  @@ (RACEWAY_CLOCK_HEADER :> raceway_clock)
    IN  [headers |-> IF tracestate # NoState
                     THEN base @@ (TRACESTATE_HEADER :> tracestate) ELSE base,
         clock_vector |-> next_clock_vector,
         child_span_id |-> child_span_id]

\* ------------------------------------------------------------ context.py
\* update_context that forgets to advance parent_id
update_context_keep_parent(ctx, event_id, is_first_event) ==
    [ctx EXCEPT !.root_id = IF is_first_event /\ ctx.root_id = NoEvent
                            THEN event_id ELSE ctx.root_id,
                !.clock = ctx.clock + 1]

update_context(ctx, event_id, is_first_event) ==
    [ctx EXCEPT !.root_id = IF is_first_event /\ ctx.root_id = NoEvent
                            THEN event_id ELSE ctx.root_id,
                !.parent_id = event_id,
                !.clock = ctx.clock + 1]

\* ------------------------------------------------------------- client.py
\* the metadata fields that identify the execution unit and the client
_build_metadata(ctx, service_name, instance_id) ==
    [thread_id |-> ctx.execution_id,
     service_name |-> service_name,
     instance_id |-> instance_id]

\* _capture_event that snapshots only the entry of its own component
_capture_event_own_component(ctx, kind, service_name, instance_id, event_id) ==
    LET clock_vector == increment_clock_vector(ctx.clock_vector, service_name, instance_id)
        component == _clock_component(service_name, instance_id)
        ctx1 == [ctx EXCEPT !.clock_vector = clock_vector]
    IN  [ctx |-> ctx1,
         event |-> [id |-> event_id,
                    trace_id |-> ctx1.trace_id,
                    parent_id |-> ctx1.parent_id,
                    kind |-> kind,
                    metadata |-> _build_metadata(ctx1, service_name, instance_id),
                    causality_vector |-> SelectSeq(clock_vector,
                                            LAMBDA entry : entry[1] = component)]]

\* _capture_event that snapshots the clock without incrementing it first
_capture_event_stale_clock(ctx, kind, service_name, instance_id, event_id) ==
    [ctx |-> ctx,
     event |-> [id |-> event_id,
                trace_id |-> ctx.trace_id,
                parent_id |-> ctx.parent_id,
                kind |-> kind,
                metadata |-> _build_metadata(ctx, service_name, instance_id),
                causality_vector |-> ctx.clock_vector]]

\* event_id: the uuid4() drawn by this call.  Returns the Context with its
\* clock incremented and the Event that is appended to the buffer.
_capture_event(ctx, kind, service_name, instance_id, event_id) ==
    LET clock_vector == increment_clock_vector(ctx.clock_vector, service_name, instance_id)
        ctx1 == [ctx EXCEPT !.clock_vector = clock_vector]
    IN  [ctx |-> ctx1,
         event |-> [id |-> event_id,
                    trace_id |-> ctx1.trace_id,
                    parent_id |-> ctx1.parent_id,
                    kind |-> kind,
                    metadata |-> _build_metadata(ctx1, service_name, instance_id),
                    causality_vector |-> clock_vector]]

\* propagation_headers that moves the caller onto the child span
propagation_context_child_span(ctx, result) ==
    [ctx EXCEPT !.clock_vector = result.clock_vector,
                !.distributed = TRUE,
                !.span_id = result.child_span_id]

\* the Context after RacewayClient.propagation_headers, given the result of
\* build_propagation_headers
propagation_context(ctx, result) ==
    [ctx EXCEPT !.clock_vector = result.clock_vector,
                !.distributed = TRUE]

\* _capture_event that never starts a flush thread
buffer_event_timer_only(buffer, event_id) ==
    [event_buffer |-> Append(buffer, event_id),
     start_flush |-> FALSE]

\* _capture_event under self.lock: the buffer after the append, and whether a
\* thread running flush is started
buffer_event(buffer, event_id) ==
    [event_buffer |-> Append(buffer, event_id),
     start_flush |-> Len(buffer) + 1 >= batch_size]

\* flush that goes on to the POST with an empty buffer
flush_returns_never(buffer) == FALSE

\* flush under self.lock: if not self.event_buffer: return
flush_returns(buffer) == buffer = << >>

\* flush that copies the buffer without clearing it
flush_drain_keep(buffer) ==
    [events |-> buffer, event_buffer |-> buffer]

\* flush under self.lock, buffer not empty: events = self.event_buffer[:],
\* then self.event_buffer.clear()
flush_drain(buffer) ==
    [events |-> buffer, event_buffer |-> << >>]

\* what session.post can come to: status 200, another status, or an
\* exception (a timeout after 10 s is one)
PostOutcomes == {"200", "500", "exception"}

\* flush whose with block also spans the try block
flush_holds_lock_in_post(status) == status = "posting"

\* whether a flush whose batch has `status` holds self.lock: the with block
\* ends before the try block that posts
flush_holds_lock(status) == FALSE

\* flush that puts a batch back when its POST failed
flush_result_requeue(buffer, events, status) ==
    IF status = "200" THEN buffer ELSE events \o buffer

\* the buffer when the try block of flush is left with `status`: both
\* branches and the except clause only print
flush_result(buffer, events, status) == buffer

\* _auto_flush that ends after its first flush
auto_flush_loop_once(is_running) == "stopped"

\* _auto_flush whose loop does not test self.running
auto_flush_loop_forever(is_running) == "sleep"

\* _auto_flush after flush() returned: the while condition, then time.sleep
auto_flush_loop(is_running) == IF is_running THEN "sleep" ELSE "stopped"

\* request() that lets the generated headers win
merged_headers_generated_win(propagation, headers) == propagation @@ headers

\* request(): merged_headers = {**propagation, **headers}
merged_headers(propagation, headers) == headers @@ propagation

\* propagation_headers(): headers = dict(result.headers);
\* if extra_headers: headers.update(extra_headers)
updated_headers(headers, extra_headers) == extra_headers @@ headers

\* ---------------------------------------------------------------- inputs
VALID_TRACE_HEX == <<"0","a","f","7","6","5","1","9","1","6","c","d","4","3","d","d","8","4","4","8","e","b","2","1","1","c","8","0","3","1","9","c">>

VALID_SPAN_ID == <<"b","7","a","d","6","b","7","1","6","9","2","0","3","3","3","1">>

VALID_TRACEPARENT ==
    TRACEPARENT_VERSION \o <<"-">> \o VALID_TRACE_HEX \o <<"-">> \o VALID_SPAN_ID
      \o <<"-">> \o TRACE_FLAGS

VALID_TRACE_ID == _traceparent_to_uuid(VALID_TRACE_HEX)

INVALID_TRACEPARENT == <<"i","n","v","a","l","i","d","-","f","o","r","m","a","t">>

\* a raceway-clock header from outside whose clock lists "b#1" twice
DUPLICATE_CLOCK ==
    [prefix |-> CLOCK_VERSION_PREFIX,
     encoded |-> _encode_base64url(json_dumps(
        [trace_id |-> VALID_TRACE_ID,
         span_id |-> VALID_SPAN_ID,
         parent_span_id |-> NoSpan,
         service |-> "b",
         instance |-> InstanceId,
         clock |-> << <<_clock_component("b", InstanceId), 1>>,
                      <<_clock_component("b", InstanceId), 3>> >>]))]

NoHeaders == [name \in {} |-> << >>]

\* request headers that arrive from outside the modelled services
ExternalHeaders ==
    { NoHeaders,
      (TRACEPARENT_HEADER :> VALID_TRACEPARENT),
      (TRACEPARENT_HEADER :> INVALID_TRACEPARENT),
      (RACEWAY_CLOCK_HEADER :> DUPLICATE_CLOCK) }

Traceparent(version, trace_hex, span_hex, flags) ==
    version \o <<"-">> \o trace_hex \o <<"-">> \o span_hex \o <<"-">> \o flags

\* traceparent values that are not four segments with a 32-digit hex trace
\* and a 16-digit hex span
MalformedTraceparents ==
    { INVALID_TRACEPARENT,
      \* three segments, five segments
      TRACEPARENT_VERSION \o <<"-">> \o VALID_TRACE_HEX \o <<"-">> \o VALID_SPAN_ID,
      VALID_TRACEPARENT \o <<"-", "0">>,
      \* a trace of 31 digits, a span of 17
      Traceparent(TRACEPARENT_VERSION, Tail(VALID_TRACE_HEX), VALID_SPAN_ID, TRACE_FLAGS),
      Traceparent(TRACEPARENT_VERSION, VALID_TRACE_HEX, <<"0">> \o VALID_SPAN_ID, TRACE_FLAGS),
      \* a letter that is no hex digit in the trace, in the span
      Traceparent(TRACEPARENT_VERSION, [VALID_TRACE_HEX EXCEPT ![1] = "g"],
                  VALID_SPAN_ID, TRACE_FLAGS),
      Traceparent(TRACEPARENT_VERSION, VALID_TRACE_HEX,
                  [VALID_SPAN_ID EXCEPT ![16] = "z"], TRACE_FLAGS),
      \* 32 and 16 characters that are an integer literal, not hex digits
      Traceparent(TRACEPARENT_VERSION, <<"0", "x">> \o SubSeq(VALID_TRACE_HEX, 3, 32),
                  VALID_SPAN_ID, TRACE_FLAGS),
      Traceparent(TRACEPARENT_VERSION, VALID_TRACE_HEX,
                  <<"+">> \o Tail(VALID_SPAN_ID), TRACE_FLAGS) }

OTHER_TRACE_ID == _traceparent_to_uuid([VALID_TRACE_HEX EXCEPT ![1] = "1"])

OTHER_SPAN_ID == [VALID_SPAN_ID EXCEPT ![1] = "c"]

\* a well-formed raceway-clock header of another trace
OTHER_CLOCK ==
    [prefix |-> CLOCK_VERSION_PREFIX,
     encoded |-> _encode_base64url(json_dumps(
        [trace_id |-> OTHER_TRACE_ID,
         span_id |-> OTHER_SPAN_ID,
         parent_span_id |-> NoSpan,
         service |-> "b",
         instance |-> InstanceId,
         clock |-> << <<_clock_component("b", InstanceId), 10>> >>]))]

\* raceway-clock values that fail validation: wrong version prefix, not
\* base64url, not JSON, JSON that is a list, a JSON object without "clock"
MalformedClocks ==
    { [OTHER_CLOCK EXCEPT !.prefix = "v99;"],
      [OTHER_CLOCK EXCEPT !.encoded.alphabet = "invalid-base64!!!"],
      [OTHER_CLOCK EXCEPT !.encoded.text.syntax = "not json"],
      [OTHER_CLOCK EXCEPT !.encoded.text.type = "list"],
      [prefix |-> CLOCK_VERSION_PREFIX,
       encoded |-> _encode_base64url(json_dumps([service |-> "b"]))] }

\* traceparent values with a well-formed trace and span whose version or
\* flags segment is not two hex digits
MalformedVersionOrFlags ==
    { Traceparent(<<"z", "z">>, VALID_TRACE_HEX, VALID_SPAN_ID, TRACE_FLAGS),
      Traceparent(TRACEPARENT_VERSION, VALID_TRACE_HEX, VALID_SPAN_ID, <<"x", "y", "z">>) }

\* request headers of the ingest cases: one header, well-formed or not, or
\* a traceparent together with a raceway-clock of another trace
IngestHeaders ==
    ExternalHeaders
      \cup {(TRACEPARENT_HEADER :> value) : value \in MalformedTraceparents}
      \cup {(TRACEPARENT_HEADER :> value) : value \in MalformedVersionOrFlags}
      \cup {(RACEWAY_CLOCK_HEADER :> value) : value \in MalformedClocks}
      \cup { (RACEWAY_CLOCK_HEADER :> OTHER_CLOCK),
             (TRACEPARENT_HEADER :> VALID_TRACEPARENT) @@ (RACEWAY_CLOCK_HEADER :> OTHER_CLOCK) }

\* request headers from outside in Spec and SpecTracker: without the malformed
\* traceparent, which gives the Context that no header gives (see SpecIngest)
EntryHeaders == ExternalHeaders \ {(TRACEPARENT_HEADER :> INVALID_TRACEPARENT)}

\* headers a caller passes to request()
CallerHeaders == { NoHeaders, ("x-custom" :> <<"v">>) }

\* headers of a caller that name a header the SDK generates
EXPLICIT_TRACEPARENT ==
    <<"0","0","-","c","u","s","t","o","m","-","t","r","a","c","e","-","c","u","s","t","o","m","-","s","p","a","n","-","0","1">>

\* headers passed to request() and to propagation_headers() with a Context bound
ExtraHeaders ==
    CallerHeaders \cup
      { (TRACEPARENT_HEADER :> EXPLICIT_TRACEPARENT),
        (TRACEPARENT_HEADER :> EXPLICIT_TRACEPARENT) @@ ("x-custom" :> <<"v">>) }

\* the Tracker API
TrackerOps ==
    { "track_state_change", "track_function_call", "track_http_request",
      "track_http_response", "track_lock_acquire", "track_lock_release" }

\* the lock objects handed to tracked_lock, each with the protocol it
\* supports and the lock_id and lock_type the caller names it by
LockObjects ==
    { [lock_id |-> "outer_lock", lock_type |-> "Mutex", protocol |-> "acquire_release"],
      [lock_id |-> "inner_lock", lock_type |-> "RWLock", protocol |-> "context_manager"],
      [lock_id |-> "bad_lock", lock_type |-> "Mutex", protocol |-> "none"] }

LockIds == {lock.lock_id : lock \in LockObjects}

\* no scope has been left yet
NoFrame == [scope |-> "none"]

\* the host threads that run at the same time
Threads == {"parent", "child"}

\* a thread that is inside no SDK call
IdleWorker == [pc |-> "idle"]

\* ----------------------------------------------------------------- state
VARIABLES
    contexts,   \* the RacewayContext objects, each bound to its own execution unit
    owner,      \* owner[i]: service_name of the client whose unit holds contexts[i]
    origin,     \* origin[i]: <<j, m>> when contexts[i] was ingested from emitted[j][m],
                \* <<0, 0>> otherwise
    captured,   \* captured[i]: the events appended to the client's event_buffer by
                \* Tracker API calls on contexts[i], in capture order
    emitted,    \* emitted[i]: the headers returned by propagation_headers on
                \* contexts[i], in order, each with the number of events the
                \* Context had captured by then (step)
    bound,      \* bound[i]: contexts[i] as it was when set_context installed it
    request_headers, \* request_headers[i]: the headers contexts[i] was parsed from
    calls,      \* the API calls that bound no Context and captured no event, in
                \* order: client, op, the headers passed in, how the call ended,
                \* the headers it returned or sent
    event_buffer,   \* event_buffer[s]: the ids of the Events in the list of client s
    flush_threads,  \* flush_threads[s]: the threads _capture_event of client s has
                    \* started that have not yet entered the locked block of flush
    batches,    \* batches[s]: the `events` lists flush has copied out of the buffer,
                \* in order, each with the caller of flush (by) and where its
                \* try block is: "posting", or the outcome of session.post
    running,    \* running[s]: RacewayClient.running
    auto_flush, \* auto_flush[s]: where the _auto_flush thread is: "sleep", "flush"
                \* (inside flush, after the drain) or "stopped"
    shutdowns,  \* shutdowns[s]: where the shutdown() call is ("none", "flush",
                \* "returned"), the events that were buffered or drained but
                \* not yet POSTed when it was first called, and the number of
                \* further shutdown() calls (again)
    thread,     \* one host thread on which scopes are entered and left:
                \* current, the index in contexts of the Context its context
                \* variable holds (0 for None); frames, the scopes it is inside,
                \* innermost last; left, the scope it left last; trail, the
                \* events it captured, in order, as <<i, n>> for captured[i][n]
    locked,     \* locked[l]: the lock object with lock_id l is held
    workers     \* workers[t]: where host thread t, one of several that run at the
                \* same time, is inside its SDK call (pc), and what it holds in
                \* its local variables

context_vars == <<contexts, owner, origin, captured, emitted, bound, request_headers>>

shipper_vars == <<batches, running, auto_flush, shutdowns>>

scope_vars == <<thread, locked>>

vars == <<context_vars, calls, event_buffer, flush_threads, shipper_vars, scope_vars, workers>>

\* context.py: create_context, called while the calling thread may still hold
\* a Context
\* create_context that carries on the chain of the Context still bound
create_context_inherit(trace_id, span_id, parent_span_id, distributed, clock_vector, tracestate, fresh_exec, fresh_span) ==
    [trace_id |-> trace_id,
     execution_id |-> fresh_exec,
     parent_id |-> IF thread.current = 0 THEN NoEvent
                   ELSE contexts[thread.current].parent_id,
     root_id |-> IF thread.current = 0 THEN NoEvent
                 ELSE contexts[thread.current].root_id,
     clock |-> 0,
     span_id |-> IF span_id # NoSpan THEN span_id ELSE fresh_span,
     parent_span_id |-> parent_span_id,
     distributed |-> distributed,
     clock_vector |-> clock_vector,
     tracestate |-> tracestate]

\* fresh_exec, fresh_span: the uuid4() draws of this call
create_context(trace_id, span_id, parent_span_id, distributed, clock_vector, tracestate, fresh_exec, fresh_span) ==
    [trace_id |-> trace_id,
     execution_id |-> fresh_exec,
     parent_id |-> NoEvent,
     root_id |-> NoEvent,
     clock |-> 0,
     span_id |-> IF span_id # NoSpan THEN span_id ELSE fresh_span,
     parent_span_id |-> parent_span_id,
     distributed |-> distributed,
     clock_vector |-> clock_vector,
     tracestate |-> tracestate]

\* Names of the random draws.  Every draw of the code is fresh; the model names
\* it after the object it is drawn for, so that two draws never coincide.
TraceDraw(k) == Uuid(k)

ContextSpanDraw(k) == _generate_span_id(k)

ChildSpanDraw(i, m) == _generate_span_id(16 * i + m)

EventDraw(i, n) == 16 * i + n

Init ==
    /\ contexts = << >>
    /\ owner = << >>
    /\ origin = << >>
    /\ captured = << >>
    /\ emitted = << >>
    /\ bound = << >>
    /\ request_headers = << >>
    /\ calls = << >>
    /\ event_buffer = [s \in Services |-> << >>]
    /\ flush_threads = [s \in Services |-> 0]
    /\ batches = [s \in Services |-> << >>]
    /\ running = [s \in Services |-> TRUE]
    /\ auto_flush = [s \in Services |-> "sleep"]
    /\ shutdowns = [s \in Services |-> [pc |-> "none", pending |-> {}, again |-> 0]]
    /\ thread = [current |-> 0, frames |-> << >>, left |-> NoFrame, trail |-> << >>]
    /\ locked = [l \in LockIds |-> FALSE]
    /\ workers = [t \in Threads |-> IdleWorker]

\* raceway_context decorator called with a trace_id, on a unit of its own:
\* create_context(trace_id) and set_context
RacewayContextDecorator(s) ==
    \E ctx \in {create_context(TraceDraw(Len(contexts) + 1), NoSpan, NoSpan, FALSE,
                               << >>, NoState, Len(contexts) + 1,
                               ContextSpanDraw(Len(contexts) + 1))} :
        /\ contexts' = Append(contexts, ctx)
        /\ bound' = Append(bound, ctx)
        /\ owner' = Append(owner, s)
        /\ origin' = Append(origin, <<0, 0>>)
        /\ captured' = Append(captured, << >>)
        /\ emitted' = Append(emitted, << >>)
        /\ request_headers' = Append(request_headers, NoHeaders)
        /\ UNCHANGED <<calls, event_buffer, flush_threads, shipper_vars, workers, scope_vars>>

\* a flush of client s is holding self.lock
LockHeld(s) ==
    \E k \in 1..Len(batches[s]) : flush_holds_lock(batches[s][k].status)

\* the locked block of _capture_event in client s
BufferEvent(s, event_id) ==
    \E buffered \in {buffer_event(event_buffer[s], event_id)} :
        /\ ~LockHeld(s)
        /\ event_buffer' = [event_buffer EXCEPT ![s] = buffered.event_buffer]
        /\ flush_threads' = [flush_threads EXCEPT
              ![s] = IF buffered.start_flush THEN @ + 1 ELSE @]

\* what a Tracker API call does to contexts[i] and to the buffer of its
\* client: _capture_event, then update_context
Capture(i, kind, is_first_event) ==
    \E result \in {_capture_event(contexts[i], kind, owner[i], InstanceId,
                                  EventDraw(i, contexts[i].clock + 1))} :
        /\ captured' = [captured EXCEPT ![i] = Append(@, result.event)]
        /\ BufferEvent(owner[i], result.event.id)
        /\ contexts' = [contexts EXCEPT
              ![i] = update_context(result.ctx, result.event.id, is_first_event)]

\* one Tracker API call on contexts[i]
Track(i, kind, is_first_event) ==
    /\ Capture(i, kind, is_first_event)
    /\ UNCHANGED <<owner, origin, emitted, bound, request_headers, calls>>
    /\ UNCHANGED <<shipper_vars, workers, scope_vars>>

track_state_change(i) ==
    Track(i, "StateChange", contexts[i].root_id = NoEvent)

track_function_call(i) ==
    Track(i, "FunctionCall", contexts[i].root_id = NoEvent)

track_http_request(i) ==
    Track(i, "HttpRequest", contexts[i].root_id = NoEvent)

track_http_response(i) ==
    Track(i, "HttpResponse", FALSE)

track_lock_acquire(i) ==
    Track(i, "LockAcquire", contexts[i].root_id = NoEvent)

track_lock_release(i) ==
    Track(i, "LockRelease", contexts[i].root_id = NoEvent)

\* RacewayClient.propagation_headers on contexts[i]
propagation_headers(i) ==
    \E result \in {build_propagation_headers(contexts[i].trace_id, contexts[i].span_id,
                      contexts[i].tracestate, contexts[i].clock_vector, owner[i],
                      InstanceId, ChildSpanDraw(i, Len(emitted[i]) + 1))} :
        /\ contexts' = [contexts EXCEPT ![i] = propagation_context(@, result)]
        /\ emitted' = [emitted EXCEPT
              ![i] = Append(@, [headers |-> result.headers, step |-> contexts[i].clock])]
        /\ UNCHANGED <<owner, origin, captured, bound, request_headers, calls,
                       event_buffer, flush_threads, shipper_vars, workers, scope_vars>>

\* what propagation_headers does to contexts[i], and the headers it returned
Propagate(i, result, returned) ==
    /\ contexts' = [contexts EXCEPT ![i] = propagation_context(@, result)]
    /\ emitted' = [emitted EXCEPT
          ![i] = Append(@, [headers |-> returned, step |-> contexts[i].clock])]

\* RacewayClient.propagation_headers(extra_headers) on contexts[i]
propagation_headers_extra(i, extra_headers) ==
    \E result \in {build_propagation_headers(contexts[i].trace_id, contexts[i].span_id,
                      contexts[i].tracestate, contexts[i].clock_vector, owner[i],
                      InstanceId, ChildSpanDraw(i, Len(emitted[i]) + 1))} :
    \E returned \in {updated_headers(result.headers, extra_headers)} :
        /\ Propagate(i, result, returned)
        /\ calls' = Append(calls, [client |-> owner[i], op |-> "propagation_headers",
                                   supplied |-> extra_headers, outcome |-> "returned",
                                   headers |-> returned, generated |-> result.headers])
        /\ UNCHANGED <<owner, origin, captured, bound, request_headers>>
        /\ UNCHANGED <<event_buffer, flush_threads, shipper_vars, workers, scope_vars>>

\* RacewayClient.request(headers = h) with contexts[i] bound:
\* propagation_headers(), then session.request with the merged headers
request(i, h) ==
    \E result \in {build_propagation_headers(contexts[i].trace_id, contexts[i].span_id,
                      contexts[i].tracestate, contexts[i].clock_vector, owner[i],
                      InstanceId, ChildSpanDraw(i, Len(emitted[i]) + 1))} :
        /\ Propagate(i, result, result.headers)
        /\ calls' = Append(calls, [client |-> owner[i], op |-> "request",
                                   supplied |-> h, outcome |-> "returned",
                                   headers |-> merged_headers(result.headers, h),
                                   generated |-> result.headers])
        /\ UNCHANGED <<owner, origin, captured, bound, request_headers>>
        /\ UNCHANGED <<event_buffer, flush_threads, shipper_vars, workers, scope_vars>>

\* middleware before_request / dispatch entry in the client of service s:
\* parse_incoming_headers, create_context, set_context, track_http_request.
\* from = <<0, 0>>: headers h from outside; from = <<j, m>>: h = emitted[j][m].headers.
\* An exception of parse_incoming_headers leaves the handler before a Context
\* is created.
RequestEntry(s, from, h) ==
    \E k \in {Len(contexts) + 1} :
    \E parsed \in {parse_incoming_headers(h, s, InstanceId, TraceDraw(k),
                                          ContextSpanDraw(k))} :
        IF parsed.error # ""
        THEN /\ calls' = Append(calls, [client |-> s, op |-> "before_request",
                                        supplied |-> h, outcome |-> parsed.error,
                                        headers |-> NoHeaders])
             /\ UNCHANGED <<context_vars, event_buffer, flush_threads, shipper_vars, workers>>
        ELSE
    \E ctx \in {create_context(parsed.trace_id, parsed.span_id, parsed.parent_span_id,
                               parsed.distributed, parsed.clock_vector,
                               parsed.tracestate, k, ContextSpanDraw(k))} :
    \E result \in {_capture_event(ctx, "HttpRequest", s, InstanceId, EventDraw(k, 1))} :
        /\ contexts' = Append(contexts,
              update_context(result.ctx, result.event.id, ctx.root_id = NoEvent))
        /\ bound' = Append(bound, ctx)
        /\ owner' = Append(owner, s)
        /\ origin' = Append(origin, from)
        /\ captured' = Append(captured, << result.event >>)
        /\ emitted' = Append(emitted, << >>)
        /\ request_headers' = Append(request_headers, h)
        /\ BufferEvent(s, result.event.id)
        /\ UNCHANGED <<calls, shipper_vars, workers>>

\* a request entering the client of service s on a unit of its own
BeforeRequest(s, from, h) ==
    /\ RequestEntry(s, from, h)
    /\ UNCHANGED scope_vars

\* a track_* method that captures an event although get_context() is None
TrackWithoutContext_capture(s, op) ==
    /\ calls' = Append(calls, [client |-> s, op |-> op, supplied |-> NoHeaders,
                               outcome |-> "returned", headers |-> NoHeaders])
    /\ BufferEvent(s, EventDraw(0, Len(calls) + 1))
    /\ UNCHANGED <<context_vars, shipper_vars, workers, scope_vars>>

\* a track_* method of client s called by a unit that has no Context bound:
\* ctx = get_context(); if ctx is None: return
TrackWithoutContext(s, op) ==
    /\ calls' = Append(calls, [client |-> s, op |-> op, supplied |-> NoHeaders,
                               outcome |-> "returned", headers |-> NoHeaders])
    /\ UNCHANGED <<context_vars, event_buffer, flush_threads, shipper_vars, workers, scope_vars>>

\* propagation_headers that returns empty headers when no Context is bound
PropagationWithoutContext_empty(s) ==
    /\ calls' = Append(calls, [client |-> s, op |-> "propagation_headers",
                               supplied |-> NoHeaders, outcome |-> "returned",
                               headers |-> NoHeaders])
    /\ UNCHANGED <<context_vars, event_buffer, flush_threads, shipper_vars, workers, scope_vars>>

\* propagation_headers of client s called by a unit that has no Context
\* bound: raise RuntimeError
PropagationWithoutContext(s) ==
    /\ calls' = Append(calls, [client |-> s, op |-> "propagation_headers",
                               supplied |-> NoHeaders, outcome |-> "RuntimeError",
                               headers |-> NoHeaders])
    /\ UNCHANGED <<context_vars, event_buffer, flush_threads, shipper_vars, workers, scope_vars>>

\* request(headers = h) of client s called by a unit that has no Context
\* bound: propagation_headers raises RuntimeError, propagation = {}, and
\* session.request is called with the merged headers
RequestWithoutContext(s, h) ==
    /\ calls' = Append(calls, [client |-> s, op |-> "request", supplied |-> h,
                               outcome |-> "returned",
                               headers |-> merged_headers(NoHeaders, h)])
    /\ UNCHANGED <<context_vars, event_buffer, flush_threads, shipper_vars, workers, scope_vars>>

\* the locked block of flush in client s, buffer not empty, called by `by`
Drain(s, by) ==
    \E drained \in {flush_drain(event_buffer[s])} :
        /\ event_buffer' = [event_buffer EXCEPT ![s] = drained.event_buffer]
        /\ batches' = [batches EXCEPT
              ![s] = Append(@, [events |-> drained.events, by |-> by,
                                status |-> "posting"])]

\* a thread started by _capture_event runs flush up to the end of the locked
\* block; with an empty buffer flush returns and the thread ends
FlushThread(s) ==
    /\ flush_threads[s] > 0
    /\ flush_threads' = [flush_threads EXCEPT ![s] = @ - 1]
    /\ ~LockHeld(s)
    /\ IF flush_returns(event_buffer[s])
       THEN UNCHANGED <<event_buffer, batches>>
       ELSE Drain(s, "size")
    /\ UNCHANGED <<context_vars, scope_vars, workers, calls, running, auto_flush, shutdowns>>

\* the _auto_flush thread wakes from time.sleep and runs flush up to the end
\* of the locked block; with an empty buffer flush returns and the loop goes on
AutoFlush(s) ==
    /\ auto_flush[s] = "sleep"
    /\ ~LockHeld(s)
    /\ IF flush_returns(event_buffer[s])
       THEN /\ auto_flush' = [auto_flush EXCEPT ![s] = auto_flush_loop(running[s])]
            /\ UNCHANGED <<event_buffer, batches>>
       ELSE /\ auto_flush' = [auto_flush EXCEPT ![s] = "flush"]
            /\ Drain(s, "timer")
    /\ UNCHANGED <<context_vars, scope_vars, workers, calls, flush_threads, running, shutdowns>>

\* a host thread calls flush(): up to the end of the locked block
ManualFlush(s) ==
    /\ ~LockHeld(s)
    /\ ~flush_returns(event_buffer[s])
    /\ Drain(s, "manual")
    /\ UNCHANGED <<context_vars, scope_vars, workers, calls, flush_threads, running, auto_flush, shutdowns>>

\* the events of the batches of client s that are still inside the try block
Posting(s) ==
    UNION {{batches[s][k].events[n] : n \in 1..Len(batches[s][k].events)} :
              k \in {k \in 1..Len(batches[s]) : batches[s][k].status = "posting"}}

Buffered(s) == {event_buffer[s][n] : n \in 1..Len(event_buffer[s])}

\* the first shutdown() of client s: self.running = False, then flush() up to
\* the end of the locked block; with an empty buffer flush and shutdown return
shutdown(s) ==
    /\ shutdowns[s].pc = "none"
    /\ running' = [running EXCEPT ![s] = FALSE]
    /\ ~LockHeld(s)
    /\ IF flush_returns(event_buffer[s])
       THEN /\ shutdowns' = [shutdowns EXCEPT
                  ![s] = [@ EXCEPT !.pc = "returned", !.pending = Posting(s)]]
            /\ UNCHANGED <<event_buffer, batches>>
       ELSE /\ shutdowns' = [shutdowns EXCEPT
                  ![s] = [@ EXCEPT !.pc = "flush",
                                   !.pending = Buffered(s) \cup Posting(s)]]
            /\ Drain(s, "shutdown")
    /\ UNCHANGED <<context_vars, scope_vars, workers, calls, flush_threads, auto_flush>>

\* a further shutdown() of client s, called after the first one returned:
\* self.running = False, then flush() up to the end of the locked block
shutdown_again(s) ==
    /\ shutdowns[s].pc = "returned"
    /\ running' = [running EXCEPT ![s] = FALSE]
    /\ ~LockHeld(s)
    /\ IF flush_returns(event_buffer[s])
       THEN /\ shutdowns' = [shutdowns EXCEPT ![s].again = @ + 1]
            /\ UNCHANGED <<event_buffer, batches>>
       ELSE /\ shutdowns' = [shutdowns EXCEPT ![s].again = @ + 1, ![s].pc = "flush"]
            /\ Drain(s, "shutdown")
    /\ UNCHANGED <<context_vars, scope_vars, workers, calls, flush_threads, auto_flush>>

\* the try block of flush for batches[s][k] ends with `status`, and flush
\* returns to its caller
Post(s, k, status) ==
    /\ batches[s][k].status = "posting"
    /\ batches' = [batches EXCEPT ![s][k].status = status]
    /\ event_buffer' = [event_buffer EXCEPT
          ![s] = flush_result(@, batches[s][k].events, status)]
    /\ auto_flush' = IF batches[s][k].by = "timer"
                     THEN [auto_flush EXCEPT ![s] = auto_flush_loop(running[s])]
                     ELSE auto_flush
    /\ shutdowns' = IF batches[s][k].by = "shutdown"
                    THEN [shutdowns EXCEPT ![s].pc = "returned"]
                    ELSE shutdowns
    /\ UNCHANGED <<context_vars, scope_vars, workers, calls, flush_threads, running>>

\* ------------------------------------------------ scopes on one thread
\* EventKind(**{name: data})
EventKind(name, data) == [name |-> name, data |-> data]

NoData == << >>

\* the dict of a LockAcquire or LockRelease kind (without its location)
LockData(lock) == [lock_id |-> lock.lock_id, lock_type |-> lock.lock_type]

Top(frames) == frames[Len(frames)]

Pop(frames) == SubSeq(frames, 1, Len(frames) - 1)

\* the trail once the thread's Context has captured its next event
Trailed == Append(thread.trail, <<thread.current, Len(captured[thread.current]) + 1>>)

\* the event the thread captured as its n-th
TrailEvent(n) == captured[thread.trail[n][1]][thread.trail[n][2]]

\* the client the thread uses: the one of its first Context
ThreadClients == IF contexts = << >> THEN Services ELSE {owner[1]}

\* an SDK call on the thread that raises or returns without touching a Context
Call(s, op, outcome) ==
    /\ calls' = Append(calls, [client |-> s, op |-> op, supplied |-> NoHeaders,
                               outcome |-> outcome, headers |-> NoHeaders])
    /\ UNCHANGED <<context_vars, event_buffer, flush_threads, shipper_vars, workers, scope_vars>>

\* the wrapper of raceway_context(trace_id) is entered on the thread:
\* create_context(trace_id or str(uuid.uuid4())), set_context(ctx), then func.
\* middleware.py does not import uuid, so without a trace_id the wrapper
\* raises NameError before a Context is created
raceway_context(s, trace_id) ==
    IF trace_id = NoTrace
    THEN Call(s, "raceway_context", "NameError")
    ELSE
    \E k \in {Len(contexts) + 1} :
    \E ctx \in {create_context(trace_id, NoSpan, NoSpan, FALSE, << >>, NoState, k,
                               ContextSpanDraw(k))} :
        /\ contexts' = Append(contexts, ctx)
        /\ bound' = Append(bound, ctx)
        /\ owner' = Append(owner, s)
        /\ origin' = Append(origin, <<0, 0>>)
        /\ captured' = Append(captured, << >>)
        /\ emitted' = Append(emitted, << >>)
        /\ request_headers' = Append(request_headers, NoHeaders)
        /\ thread' = [thread EXCEPT
              !.current = k,
              !.frames = Append(@, [scope |-> "raceway_context", before |-> thread.current])]
        /\ UNCHANGED <<calls, event_buffer, flush_threads, shipper_vars, workers, locked>>

\* the decorated function returns or raises: try: return func(...) finally: pass
raceway_context_exit(how) ==
    /\ thread.frames # << >>
    /\ Top(thread.frames).scope = "raceway_context"
    /\ thread' = [thread EXCEPT
          !.frames = Pop(@),
          !.left = [scope |-> "raceway_context", how |-> how, outcome |-> how]]
    /\ UNCHANGED <<context_vars, calls, event_buffer, flush_threads, shipper_vars, workers, locked>>

\* a request from outside enters the middleware on the thread, which is
\* inside no scope: before_request / the first half of dispatch
before_request(s, h) ==
    /\ thread.frames = << >>
    /\ RequestEntry(s, <<0, 0>>, h)
    /\ thread' = IF Len(contexts') > Len(contexts)
                 THEN [thread EXCEPT
                         !.current = Len(contexts'),
                         !.frames = << [scope |-> "request", before |-> thread.current] >>,
                         !.trail = Append(@, <<Len(contexts'), 1>>)]
                 ELSE thread
    /\ UNCHANGED locked

\* the handler of the request is over: after_request / the second half of
\* dispatch call track_http_response and return the response
after_request ==
    /\ thread.frames # << >>
    /\ Top(thread.frames).scope = "request"
    /\ Capture(thread.current, EventKind("HttpResponse", NoData), FALSE)
    /\ thread' = [thread EXCEPT
          !.frames = Pop(@),
          !.left = [scope |-> "request", how |-> "return", outcome |-> "return"],
          !.trail = Trailed]
    /\ UNCHANGED <<owner, origin, emitted, bound, request_headers, calls, shipper_vars, workers, locked>>

\* client.track_state_change called on the thread
thread_track_state_change(s) ==
    IF thread.current = 0
    THEN TrackWithoutContext(s, "track_state_change")
    ELSE /\ Capture(thread.current, EventKind("StateChange", NoData),
                    contexts[thread.current].root_id = NoEvent)
         /\ thread' = [thread EXCEPT !.trail = Trailed]
         /\ UNCHANGED <<owner, origin, emitted, bound, request_headers, calls>>
         /\ UNCHANGED <<shipper_vars, workers, locked>>

\* tracked_lock that takes the lock before it looks for a Context
tracked_lock_acquire_first(s, lock) ==
    IF lock.protocol = "none"
    THEN Call(s, "tracked_lock", "TypeError")
    ELSE IF thread.current = 0
    THEN /\ ~locked[lock.lock_id]
         /\ locked' = [locked EXCEPT ![lock.lock_id] = TRUE]
         /\ calls' = Append(calls, [client |-> s, op |-> "tracked_lock",
                                    supplied |-> NoHeaders, outcome |-> "RuntimeError",
                                    headers |-> NoHeaders])
         /\ UNCHANGED <<context_vars, event_buffer, flush_threads, shipper_vars, workers, thread>>
    ELSE /\ ~locked[lock.lock_id]
         /\ locked' = [locked EXCEPT ![lock.lock_id] = TRUE]
         /\ Capture(thread.current, EventKind("LockAcquire", LockData(lock)),
                    contexts[thread.current].root_id = NoEvent)
         /\ thread' = [thread EXCEPT
               !.frames = Append(@, [scope |-> "tracked_lock", before |-> thread.current,
                                     lock |-> lock]),
               !.trail = Trailed]
         /\ UNCHANGED <<owner, origin, emitted, bound, request_headers, calls, shipper_vars, workers>>

\* `with tracked_lock(client, lock, lock_id, lock_type):` is entered on the
\* thread: RuntimeError without a Context, TypeError for an object that has
\* neither acquire/release nor __enter__/__exit__; otherwise lock.acquire()
\* or lock.__enter__() (which returns once the lock is free), then
\* client.track_lock_acquire, then the body
tracked_lock(s, lock) ==
    IF thread.current = 0
    THEN Call(s, "tracked_lock", "RuntimeError")
    ELSE IF lock.protocol = "none"
    THEN Call(s, "tracked_lock", "TypeError")
    ELSE /\ ~locked[lock.lock_id]
         /\ locked' = [locked EXCEPT ![lock.lock_id] = TRUE]
         /\ Capture(thread.current, EventKind("LockAcquire", LockData(lock)),
                    contexts[thread.current].root_id = NoEvent)
         /\ thread' = [thread EXCEPT
               !.frames = Append(@, [scope |-> "tracked_lock", before |-> thread.current,
                                     lock |-> lock]),
               !.trail = Trailed]
         /\ UNCHANGED <<owner, origin, emitted, bound, request_headers, calls, shipper_vars, workers>>

\* tracked_lock without its finally clause: a body that raises leaves the
\* lock held and captures no LockRelease
tracked_lock_exit_no_finally(how) ==
    /\ thread.frames # << >>
    /\ Top(thread.frames).scope = "tracked_lock"
    /\ IF how = "raise"
       THEN /\ thread' = [thread EXCEPT
                  !.frames = Pop(@),
                  !.left = [scope |-> "tracked_lock", how |-> how, outcome |-> how]]
            /\ UNCHANGED <<contexts, captured, event_buffer, flush_threads, locked>>
       ELSE /\ Capture(thread.current, EventKind("LockRelease", LockData(Top(thread.frames).lock)),
                       contexts[thread.current].root_id = NoEvent)
            /\ locked' = [locked EXCEPT ![Top(thread.frames).lock.lock_id] = FALSE]
            /\ thread' = [thread EXCEPT
                  !.frames = Pop(@),
                  !.left = [scope |-> "tracked_lock", how |-> how, outcome |-> how],
                  !.trail = Trailed]
    /\ UNCHANGED <<owner, origin, emitted, bound, request_headers, calls, shipper_vars, workers>>

\* the body of the innermost tracked_lock scope returns or raises: the
\* finally clause calls client.track_lock_release on the Context the thread
\* has bound, then lock.release() or lock.__exit__(None, None, None); an
\* error of the body propagates
tracked_lock_exit(how) ==
    /\ thread.frames # << >>
    /\ Top(thread.frames).scope = "tracked_lock"
    /\ Capture(thread.current, EventKind("LockRelease", LockData(Top(thread.frames).lock)),
               contexts[thread.current].root_id = NoEvent)
    /\ locked' = [locked EXCEPT ![Top(thread.frames).lock.lock_id] = FALSE]
    /\ thread' = [thread EXCEPT
          !.frames = Pop(@),
          !.left = [scope |-> "tracked_lock", how |-> how, outcome |-> how],
          !.trail = Trailed]
    /\ UNCHANGED <<owner, origin, emitted, bound, request_headers, calls, shipper_vars, workers>>

\* client.track_function(function_name, args, fn) is entered on the thread:
\* result = fn() starts the thunk
track_function(s) ==
    /\ thread' = [thread EXCEPT
          !.frames = Append(@, [scope |-> "track_function", before |-> thread.current,
                                client |-> s, runs |-> 1])]
    /\ UNCHANGED <<context_vars, calls, event_buffer, flush_threads, shipper_vars, workers, locked>>

\* track_function that records the call only when the thunk returns
track_function_exit_return_only(how) ==
    /\ thread.frames # << >>
    /\ Top(thread.frames).scope = "track_function"
    /\ \E frame \in {Top(thread.frames)} :
       \E left \in {[scope |-> "track_function", how |-> how, outcome |-> how,
                     runs |-> frame.runs]} :
          IF thread.current = 0
          THEN /\ thread' = [thread EXCEPT !.frames = Pop(@), !.left = left]
               /\ calls' = Append(calls, [client |-> frame.client,
                     op |-> "track_function_call", supplied |-> NoHeaders,
                     outcome |-> "returned", headers |-> NoHeaders])
               /\ UNCHANGED <<context_vars, event_buffer, flush_threads, shipper_vars, workers, locked>>
          ELSE IF how = "raise"
          THEN /\ thread' = [thread EXCEPT !.frames = Pop(@), !.left = left]
               /\ UNCHANGED <<context_vars, calls, event_buffer, flush_threads>>
               /\ UNCHANGED <<shipper_vars, workers, locked>>
          ELSE /\ Capture(thread.current, EventKind("FunctionCall", NoData),
                          contexts[thread.current].root_id = NoEvent)
               /\ thread' = [thread EXCEPT !.frames = Pop(@), !.left = left,
                                           !.trail = Trailed]
               /\ UNCHANGED <<owner, origin, emitted, bound, request_headers, calls>>
               /\ UNCHANGED <<shipper_vars, workers, locked>>

\* the thunk of the innermost track_function returns or raises an Exception:
\* both branches call self.track_function_call once, which returns without an
\* event when no Context is bound; then the result is returned or the error
\* raised again
track_function_exit(how) ==
    /\ thread.frames # << >>
    /\ Top(thread.frames).scope = "track_function"
    /\ \E frame \in {Top(thread.frames)} :
       \E left \in {[scope |-> "track_function", how |-> how, outcome |-> how,
                     runs |-> frame.runs]} :
          IF thread.current = 0
          THEN /\ thread' = [thread EXCEPT !.frames = Pop(@), !.left = left]
               /\ calls' = Append(calls, [client |-> frame.client,
                     op |-> "track_function_call", supplied |-> NoHeaders,
                     outcome |-> "returned", headers |-> NoHeaders])
               /\ UNCHANGED <<context_vars, event_buffer, flush_threads, shipper_vars, workers, locked>>
          ELSE /\ Capture(thread.current, EventKind("FunctionCall", NoData),
                          contexts[thread.current].root_id = NoEvent)
               /\ thread' = [thread EXCEPT !.frames = Pop(@), !.left = left,
                                           !.trail = Trailed]
               /\ UNCHANGED <<owner, origin, emitted, bound, request_headers, calls>>
               /\ UNCHANGED <<shipper_vars, workers, locked>>

\* ------------------------------- threads that share one Context object
\* the Context the parent thread handed to the thread it spawned
\* (contextvars.copy_context().run): both context variables hold contexts[1]
SharedContext == 1

\* the Event(...) call of _capture_event: the fields read from ctx
new_event(ctx, kind, service_name, instance_id, event_id) ==
    [id |-> event_id,
     trace_id |-> ctx.trace_id,
     parent_id |-> ctx.parent_id,
     kind |-> kind,
     metadata |-> _build_metadata(ctx, service_name, instance_id),
     causality_vector |-> ctx.clock_vector]

\* the events the threads have built and not yet appended
Unbuffered == {t \in Threads : workers[t].pc = "buffer"}

\* thread t enters track_state_change: is_first_event = ctx.root_id is None,
\* then _capture_event evaluates the argument ctx.clock_vector
worker_track_state_change(t) ==
    /\ workers[t].pc = "idle"
    /\ workers' = [workers EXCEPT ![t] =
          [pc |-> "increment",
           is_first_event |-> contexts[SharedContext].root_id = NoEvent,
           clock_vector |-> contexts[SharedContext].clock_vector]]
    /\ UNCHANGED <<context_vars, calls, event_buffer, flush_threads, shipper_vars, scope_vars>>

\* ctx.clock_vector = increment_clock_vector(<the vector read before>)
worker_increment(t) ==
    /\ workers[t].pc = "increment"
    /\ contexts' = [contexts EXCEPT ![SharedContext].clock_vector =
          increment_clock_vector(workers[t].clock_vector, owner[SharedContext], InstanceId)]
    /\ workers' = [workers EXCEPT ![t].pc = "event"]
    /\ UNCHANGED <<owner, origin, captured, emitted, bound, request_headers>>
    /\ UNCHANGED <<calls, event_buffer, flush_threads, shipper_vars, scope_vars>>

\* causality_vector = list(ctx.clock_vector); event = Event(id=uuid4(), ...,
\* parent_id=ctx.parent_id, ...)
worker_event(t) ==
    /\ workers[t].pc = "event"
    /\ workers' = [workers EXCEPT ![t] =
          [pc |-> "buffer",
           is_first_event |-> workers[t].is_first_event,
           event |-> new_event(contexts[SharedContext], "StateChange",
                               owner[SharedContext], InstanceId,
                               EventDraw(SharedContext,
                                         Len(captured[SharedContext])
                                           + Cardinality(Unbuffered) + 1))]]
    /\ UNCHANGED <<context_vars, calls, event_buffer, flush_threads, shipper_vars, scope_vars>>

\* with self.lock: self.event_buffer.append(event) ...
worker_buffer(t) ==
    /\ workers[t].pc = "buffer"
    /\ captured' = [captured EXCEPT ![SharedContext] = Append(@, workers[t].event)]
    /\ BufferEvent(owner[SharedContext], workers[t].event.id)
    /\ workers' = [workers EXCEPT ![t].pc = "update"]
    /\ UNCHANGED <<contexts, owner, origin, emitted, bound, request_headers>>
    /\ UNCHANGED <<calls, shipper_vars, scope_vars>>

\* update_context: ctx.root_id and ctx.parent_id are set, and ctx.clock is
\* read for ctx.clock += 1
worker_update_context(t) ==
    /\ workers[t].pc = "update"
    /\ \E ctx \in {contexts[SharedContext]} :
          /\ contexts' = [contexts EXCEPT ![SharedContext] =
                [ctx EXCEPT !.root_id = IF workers[t].is_first_event /\ ctx.root_id = NoEvent
                                        THEN workers[t].event.id ELSE ctx.root_id,
                            !.parent_id = workers[t].event.id]]
          /\ workers' = [workers EXCEPT ![t] = [pc |-> "clock", clock |-> ctx.clock]]
    /\ UNCHANGED <<owner, origin, captured, emitted, bound, request_headers>>
    /\ UNCHANGED <<calls, event_buffer, flush_threads, shipper_vars, scope_vars>>

\* ctx.clock += 1 stores the value read before, plus one; the call returns
worker_clock(t) ==
    /\ workers[t].pc = "clock"
    /\ contexts' = [contexts EXCEPT ![SharedContext].clock = workers[t].clock + 1]
    /\ workers' = [workers EXCEPT ![t] = IdleWorker]
    /\ UNCHANGED <<owner, origin, captured, emitted, bound, request_headers>>
    /\ UNCHANGED <<calls, event_buffer, flush_threads, shipper_vars, scope_vars>>

\* ------------------- threads with Contexts of their own and one lock
\* the Context bound to thread t
ContextOf(t) == IF t = "parent" THEN 1 ELSE 2

\* the lock object the threads share
SHARED_LOCK == CHOOSE lock \in LockObjects : lock.protocol = "acquire_release"

\* tracked_lock whose finally clause releases the lock before it tracks
tracked_lock_finally_release_first(acquired) ==
    IF acquired THEN <<"release", "track_lock_release">> ELSE << >>

\* the finally clause of tracked_lock: if acquired:
\* client.track_lock_release(...), then lock.release()
tracked_lock_finally(acquired) ==
    IF acquired THEN <<"track_lock_release", "release">> ELSE << >>

\* thread t enters tracked_lock with its Context bound and comes to
\* lock.acquire()
worker_tracked_lock(t) ==
    /\ workers[t].pc = "idle"
    /\ workers' = [workers EXCEPT ![t] = [pc |-> "acquire"]]
    /\ UNCHANGED <<context_vars, calls, event_buffer, flush_threads, shipper_vars, scope_vars>>

\* lock.acquire() returns once no thread holds the lock; acquired = True
worker_acquire(t) ==
    /\ workers[t].pc = "acquire"
    /\ ~locked[SHARED_LOCK.lock_id]
    /\ locked' = [locked EXCEPT ![SHARED_LOCK.lock_id] = TRUE]
    /\ workers' = [workers EXCEPT ![t] = [pc |-> "track_lock_acquire"]]
    /\ UNCHANGED <<context_vars, calls, event_buffer, flush_threads, shipper_vars, thread>>

\* client.track_lock_acquire(lock_id, lock_type), then yield
worker_track_lock_acquire(t) ==
    /\ workers[t].pc = "track_lock_acquire"
    /\ Capture(ContextOf(t), EventKind("LockAcquire", LockData(SHARED_LOCK)),
               contexts[ContextOf(t)].root_id = NoEvent)
    /\ workers' = [workers EXCEPT ![t] = [pc |-> "body"]]
    /\ UNCHANGED <<owner, origin, emitted, bound, request_headers, calls>>
    /\ UNCHANGED <<shipper_vars, scope_vars>>

\* the body of the with statement returns or raises: the finally clause starts
worker_body(t, how) ==
    /\ workers[t].pc = "body"
    /\ workers' = [workers EXCEPT ![t] =
          [pc |-> "finally", how |-> how, todo |-> tracked_lock_finally(TRUE)]]
    /\ UNCHANGED <<context_vars, calls, event_buffer, flush_threads, shipper_vars, scope_vars>>

\* the next statement of the finally clause; after the last one tracked_lock
\* is left
worker_finally(t) ==
    /\ workers[t].pc = "finally"
    /\ workers' = [workers EXCEPT ![t] =
          IF Len(workers[t].todo) = 1 THEN IdleWorker
          ELSE [workers[t] EXCEPT !.todo = Tail(@)]]
    /\ IF Head(workers[t].todo) = "track_lock_release"
       THEN /\ Capture(ContextOf(t), EventKind("LockRelease", LockData(SHARED_LOCK)),
                       contexts[ContextOf(t)].root_id = NoEvent)
            /\ UNCHANGED <<owner, origin, emitted, bound, request_headers, calls>>
            /\ UNCHANGED <<shipper_vars, scope_vars>>
       ELSE /\ locked' = [locked EXCEPT ![SHARED_LOCK.lock_id] = FALSE]
            /\ UNCHANGED <<context_vars, calls, event_buffer, flush_threads>>
            /\ UNCHANGED <<shipper_vars, thread>>

\* --------------------------------------------------------- decorators.py
Decorators == {"track_function", "track_async", "track_method"}

\* the function_name of the event captured before the function runs:
\* func_name, or f"{func_name}:spawn", as <<func_name, suffix>>
entry_name(decorator, func_name) ==
    <<func_name, IF decorator = "track_async" THEN ":spawn" ELSE "">>

\* the function_name of the event captured when the function has returned
\* or raised: f"{func_name}:return", f"{func_name}:await", f"{func_name}:error"
exit_name(decorator, func_name, how) ==
    <<func_name, IF how = "raise" THEN ":error"
                 ELSE IF decorator = "track_async" THEN ":await" ELSE ":return">>

FunctionData(function_name) == [function_name |-> function_name]

\* the wrapper of a decorated function is entered on the thread.  With no
\* Context bound, or with no client (client is None and args[0] has no
\* _raceway_client / the instance has no client_attr), it runs the function
\* untracked; otherwise it calls track_function_call and then the function
wrapper(decorator, func_name, has_client) ==
    \E tracked \in {thread.current # 0 /\ has_client} :
    \E frame \in {[scope |-> "decorated", before |-> thread.current,
                   decorator |-> decorator, func_name |-> func_name,
                   has_client |-> has_client, tracked |-> tracked]} :
        IF tracked
        THEN /\ Capture(thread.current,
                        EventKind("FunctionCall",
                                  FunctionData(entry_name(decorator, func_name))),
                        contexts[thread.current].root_id = NoEvent)
             /\ thread' = [thread EXCEPT !.frames = Append(@, frame), !.trail = Trailed]
             /\ UNCHANGED <<owner, origin, emitted, bound, request_headers, calls>>
             /\ UNCHANGED <<shipper_vars, workers, locked>>
        ELSE /\ thread' = [thread EXCEPT !.frames = Append(@, frame)]
             /\ UNCHANGED <<context_vars, calls, event_buffer, flush_threads>>
             /\ UNCHANGED <<shipper_vars, workers, locked>>

\* wrapper without the except clause
wrapper_exit_return_only(how) ==
    /\ thread.frames # << >>
    /\ Top(thread.frames).scope = "decorated"
    /\ \E frame \in {Top(thread.frames)} :
       \E left \in {[scope |-> "decorated", how |-> how, outcome |-> how,
                     tracked |-> frame.tracked]} :
          IF frame.tracked /\ thread.current # 0 /\ how = "return"
          THEN /\ Capture(thread.current,
                          EventKind("FunctionCall",
                              FunctionData(exit_name(frame.decorator, frame.func_name, how))),
                          contexts[thread.current].root_id = NoEvent)
               /\ thread' = [thread EXCEPT !.frames = Pop(@), !.left = left,
                                           !.trail = Trailed]
               /\ UNCHANGED <<owner, origin, emitted, bound, request_headers, calls>>
               /\ UNCHANGED <<shipper_vars, workers, locked>>
          ELSE /\ thread' = [thread EXCEPT !.frames = Pop(@), !.left = left]
               /\ UNCHANGED <<context_vars, calls, event_buffer, flush_threads>>
               /\ UNCHANGED <<shipper_vars, workers, locked>>

\* the function of the innermost wrapper returns or raises an Exception.  The
\* tracked wrapper calls track_function_call once, with ":return" / ":await"
\* in the try block or with ":error" in the except clause, and returns the
\* result or raises the error again; the untracked one only hands on the
\* result or the error
wrapper_exit(how) ==
    /\ thread.frames # << >>
    /\ Top(thread.frames).scope = "decorated"
    /\ \E frame \in {Top(thread.frames)} :
       \E left \in {[scope |-> "decorated", how |-> how, outcome |-> how,
                     tracked |-> frame.tracked]} :
          IF frame.tracked /\ thread.current # 0
          THEN /\ Capture(thread.current,
                          EventKind("FunctionCall",
                              FunctionData(exit_name(frame.decorator, frame.func_name, how))),
                          contexts[thread.current].root_id = NoEvent)
               /\ thread' = [thread EXCEPT !.frames = Pop(@), !.left = left,
                                           !.trail = Trailed]
               /\ UNCHANGED <<owner, origin, emitted, bound, request_headers, calls>>
               /\ UNCHANGED <<shipper_vars, workers, locked>>
          ELSE /\ thread' = [thread EXCEPT !.frames = Pop(@), !.left = left]
               /\ UNCHANGED <<context_vars, calls, event_buffer, flush_threads>>
               /\ UNCHANGED <<shipper_vars, workers, locked>>

RECURSIVE TotalLen(_)
TotalLen(seqs) == IF seqs = << >> THEN 0 ELSE Len(Head(seqs)) + TotalLen(Tail(seqs))

CanBind(maxContexts) == Len(contexts) < maxContexts

CanCapture(maxEvents) == TotalLen(captured) < maxEvents

CanEmit(maxEmissions) == TotalLen(emitted) < maxEmissions

CanCall(maxCalls) == Len(calls) < maxCalls

\* Services that call each other through the middleware: every Context is
\* created by a request entering a service, from outside or from an emission
Next ==
    \/ \E i \in 1..Len(contexts) : CanCapture(MaxEvents) /\ track_state_change(i)
    \/ \E i \in 1..Len(contexts) : CanEmit(MaxEmissions) /\ propagation_headers(i)
    \/ \E s \in Services, h \in EntryHeaders :
          CanBind(MaxContexts) /\ CanCapture(MaxEvents) /\ BeforeRequest(s, <<0, 0>>, h)
    \/ \E s \in Services, j \in 1..Len(contexts) :
          \E m \in 1..Len(emitted[j]) :
              CanBind(MaxContexts) /\ CanCapture(MaxEvents)
                /\ BeforeRequest(s, <<j, m>>, emitted[j][m].headers)

Spec == Init /\ [][Next]_vars

\* no Context has been bound yet
Unbound == contexts = << >>

\* The whole Tracker API on one execution unit: its Context is bound once, by
\* the decorator or by a request from outside, and then driven by Tracker
\* calls and header emissions
NextTracker ==
    \/ \E s \in Services : Unbound /\ RacewayContextDecorator(s)
    \/ \E s \in Services, h \in EntryHeaders :
          Unbound /\ CanCapture(TrackerEvents) /\ BeforeRequest(s, <<0, 0>>, h)
    \/ \E i \in 1..Len(contexts) : CanCapture(TrackerEvents) /\ track_state_change(i)
    \/ \E i \in 1..Len(contexts) : CanCapture(TrackerEvents) /\ track_function_call(i)
    \/ \E i \in 1..Len(contexts) : CanCapture(TrackerEvents) /\ track_http_request(i)
    \/ \E i \in 1..Len(contexts) : CanCapture(TrackerEvents) /\ track_http_response(i)
    \/ \E i \in 1..Len(contexts) : CanCapture(TrackerEvents) /\ track_lock_acquire(i)
    \/ \E i \in 1..Len(contexts) : CanCapture(TrackerEvents) /\ track_lock_release(i)
    \/ \E i \in 1..Len(contexts) : CanEmit(TrackerEmissions) /\ propagation_headers(i)

SpecTracker == Init /\ [][NextTracker]_vars

\* One client used by a unit with a Context, which fills the buffer, and by
\* a unit without one, which calls the Tracker API, propagation_headers and
\* request, while the threads started by _capture_event run
NextNoContext ==
    \/ \E s \in Services : Unbound /\ RacewayContextDecorator(s)
    \/ \E i \in 1..Len(contexts) : CanCapture(NoContextEvents) /\ track_state_change(i)
    \/ \E i \in 1..Len(contexts), op \in TrackerOps :
          CanCall(NoContextCalls) /\ TrackWithoutContext(owner[i], op)
    \/ \E i \in 1..Len(contexts) :
          CanCall(NoContextCalls) /\ PropagationWithoutContext(owner[i])
    \/ \E i \in 1..Len(contexts), h \in CallerHeaders :
          CanCall(NoContextCalls) /\ RequestWithoutContext(owner[i], h)
    \/ \E s \in Services : FlushThread(s)

SpecNoContext == Init /\ [][NextNoContext]_vars

\* Requests from outside entering the services, with well-formed and
\* malformed headers
NextIngest ==
    \E s \in Services, h \in IngestHeaders :
        Len(contexts) + Len(calls) < IngestRequests /\ BeforeRequest(s, <<0, 0>>, h)

SpecIngest == Init /\ [][NextIngest]_vars

\* One unit capturing events in one client while the threads of the client
\* run, hosts call flush() and shutdown(), and POSTs succeed or fail
NextRunning ==
    \/ \E s \in Services : Unbound /\ RacewayContextDecorator(s)
    \/ \E i \in 1..Len(contexts) : CanCapture(ShipperEvents) /\ track_state_change(i)
    \/ \E s \in Services : FlushThread(s)
    \/ \E s \in Services : AutoFlush(s)
    \/ \E i \in 1..Len(contexts) : ManualFlush(owner[i])
    \/ \E s \in Services :
          \E k \in 1..Len(batches[s]), status \in PostOutcomes : Post(s, k, status)

NextShipper ==
    \/ NextRunning
    \/ \E i \in 1..Len(contexts) : shutdown(owner[i])

SpecShipper == Init /\ [][NextShipper]_vars

\* The same client while it is running.  The _auto_flush thread and the
\* threads started by _capture_event are daemon threads that the interpreter
\* keeps scheduling, and session.post returns or raises within its timeout
Fairness ==
    \A s \in Services :
        /\ WF_vars(AutoFlush(s))
        /\ WF_vars(FlushThread(s))
        /\ WF_vars(\E k \in 1..Len(batches[s]), status \in PostOutcomes : Post(s, k, status))

SpecShipperLive == Init /\ [][NextRunning]_vars /\ Fairness

\* The same client, capturing fewer events, until shutdown() is called, after
\* it, and when it is called again, under the same scheduling
NextStopping ==
    \/ \E s \in Services : Unbound /\ RacewayContextDecorator(s)
    \/ \E i \in 1..Len(contexts) : CanCapture(StoppingEvents) /\ track_state_change(i)
    \/ \E s \in Services : FlushThread(s)
    \/ \E s \in Services : AutoFlush(s)
    \/ \E i \in 1..Len(contexts) : ManualFlush(owner[i])
    \/ \E s \in Services :
          \E k \in 1..Len(batches[s]), status \in PostOutcomes : Post(s, k, status)
    \/ \E i \in 1..Len(contexts) : shutdown(owner[i])
    \/ \E i \in 1..Len(contexts) :
          shutdowns[owner[i]].again < ShutdownCalls /\ shutdown_again(owner[i])

SpecStopping == Init /\ [][NextStopping]_vars /\ Fairness

\* the thread may enter one more scope or make one more call
CanEnter ==
    /\ Len(thread.frames) < ScopeDepth
    /\ Len(thread.trail) < ScopeEvents
    /\ CanCall(ScopeCalls)

\* the same for the thread that calls track_function
CanCallFunction ==
    /\ Len(thread.frames) < FunctionDepth
    /\ Len(thread.trail) + Len(calls) < FunctionEvents

\* how the body of a scope ends: it returns, or it raises an Exception
Exits == {"return", "raise"}

\* the trace_id argument of raceway_context: none, or the caller's own
TraceIds == {NoTrace, TraceDraw(Len(contexts) + 1)}

\* One thread that enters and leaves tracked_lock scopes, inside and outside
\* functions decorated with raceway_context
NextLock ==
    \/ \E s \in ThreadClients, trace_id \in TraceIds :
          CanEnter /\ CanBind(ScopeContexts) /\ raceway_context(s, trace_id)
    \/ \E how \in Exits : raceway_context_exit(how)
    \/ \E s \in ThreadClients, lock \in LockObjects : CanEnter /\ tracked_lock(s, lock)
    \/ \E how \in Exits : tracked_lock_exit(how)

SpecLock == Init /\ [][NextLock]_vars

\* One thread that serves requests through the middleware and runs
\* decorated functions, with Tracker calls in between
NextBinding ==
    \/ \E s \in ThreadClients, trace_id \in TraceIds :
          CanEnter /\ CanBind(ScopeContexts) /\ raceway_context(s, trace_id)
    \/ \E how \in Exits : raceway_context_exit(how)
    \/ \E s \in ThreadClients, h \in EntryHeaders :
          CanEnter /\ CanBind(ScopeContexts) /\ before_request(s, h)
    \/ after_request
    \/ \E s \in ThreadClients : CanEnter /\ thread_track_state_change(s)

SpecBinding == Init /\ [][NextBinding]_vars

\* One thread that calls track_function, with and without a Context, the
\* thunks calling the SDK in turn
NextFunction ==
    \/ \E s \in ThreadClients :
          CanCallFunction /\ CanBind(FunctionContexts)
            /\ raceway_context(s, TraceDraw(Len(contexts) + 1))
    \/ \E how \in Exits : raceway_context_exit(how)
    \/ \E s \in ThreadClients : CanCallFunction /\ track_function(s)
    \/ \E how \in Exits : track_function_exit(how)
    \/ \E s \in ThreadClients : CanCallFunction /\ thread_track_state_change(s)

SpecFunction == Init /\ [][NextFunction]_vars

\* One unit with a Context that captures events and sends requests and
\* builds headers with headers of its own
NextRequest ==
    \/ \E s \in Services : Unbound /\ RacewayContextDecorator(s)
    \/ \E i \in 1..Len(contexts) : CanCapture(RequestEvents) /\ track_state_change(i)
    \/ \E i \in 1..Len(contexts), h \in ExtraHeaders :
          CanCall(RequestCalls) /\ request(i, h)
    \/ \E i \in 1..Len(contexts), h \in ExtraHeaders :
          CanCall(RequestCalls) /\ propagation_headers_extra(i, h)

SpecRequest == Init /\ [][NextRequest]_vars

\* the decorated functions the thread is inside, outermost first
DecoratedFrames == SelectSeq(thread.frames, LAMBDA frame : frame.scope = "decorated")

\* the name given to the decorator (name=...) of the function called next:
\* "outer" from outside a decorated function, "inner" from inside one
CalledNames == IF DecoratedFrames = << >> THEN {"outer"} ELSE {"inner"}

\* the thread may call one more decorated function
CanDecorate ==
    /\ Len(thread.frames) < DecoratorDepth
    /\ Len(thread.trail) < DecoratorEvents

\* One thread that calls functions decorated with track_function, track_async
\* and track_method, nested in each other, before and after a function
\* decorated with raceway_context has bound a Context
NextDecorators ==
    \/ \E s \in ThreadClients :
          CanDecorate /\ Unbound /\ raceway_context(s, TraceDraw(Len(contexts) + 1))
    \/ \E how \in Exits : raceway_context_exit(how)
    \/ \E decorator \in Decorators, func_name \in CalledNames, has_client \in BOOLEAN :
          CanDecorate /\ wrapper(decorator, func_name, has_client)
    \/ \E how \in Exits : wrapper_exit(how)

SpecDecorators == Init /\ [][NextDecorators]_vars

\* the threads have not yet begun SharedEvents Tracker calls
CanTrack ==
    Len(captured[SharedContext])
      + Cardinality({t \in Threads : workers[t].pc \in {"increment", "event", "buffer"}})
        < SharedEvents

\* A thread and the thread it spawned with its Context, both calling
\* track_state_change.  The interpreter may switch threads between any two
\* of the steps: _capture_event and update_context take no lock but the
\* buffer's
NextShared ==
    \/ \E s \in Services : Unbound /\ RacewayContextDecorator(s)
    \/ \E t \in Threads : ~Unbound /\ CanTrack /\ worker_track_state_change(t)
    \/ \E t \in Threads : worker_increment(t)
    \/ \E t \in Threads : worker_event(t)
    \/ \E t \in Threads : worker_buffer(t)
    \/ \E t \in Threads : worker_update_context(t)
    \/ \E t \in Threads : worker_clock(t)

SpecShared == Init /\ [][NextShared]_vars

\* Two threads of one process, each with a Context of its own, that enter
\* and leave tracked_lock on the same lock
NextHolders ==
    \/ \E s \in ThreadClients :
          Len(contexts) < Cardinality(Threads) /\ RacewayContextDecorator(s)
    \/ \E t \in Threads :
          Len(contexts) = Cardinality(Threads) /\ CanCapture(HolderEvents)
            /\ worker_tracked_lock(t)
    \/ \E t \in Threads : worker_acquire(t)
    \/ \E t \in Threads : worker_track_lock_acquire(t)
    \/ \E t \in Threads, how \in Exits : worker_body(t, how)
    \/ \E t \in Threads : worker_finally(t)

SpecHolders == Init /\ [][NextHolders]_vars

\* ---------------------------------------------------------------- claims
OwnComponent(i) == _clock_component(owner[i], InstanceId)

\* the counter a vector holds for a component (its first entry), 0 if none
RECURSIVE Counter(_, _)
Counter(vector, component) ==
    IF vector = << >> THEN 0
    ELSE IF Head(vector)[1] = component THEN Head(vector)[2]
    ELSE Counter(Tail(vector), component)

ComponentsOf(vector) == {vector[k][1] : k \in 1..Len(vector)}

\* the decoded raceway-clock payload of a set of emitted headers
PayloadOf(headers) ==
    json_loads(_decode_base64url(headers[RACEWAY_CLOCK_HEADER].encoded))

\* the span segment of an emitted traceparent
TraceparentSpan(headers) == Split(headers[TRACEPARENT_HEADER], "-")[3]

\* C1: in one Context the first captured event has no parent_id and every
\* later event has as parent_id the id of the event captured just before it,
\* whatever Tracker calls and header emissions were interleaved.
C1_ParentChain ==
    \A i \in 1..Len(contexts) :
        \A n \in 1..Len(captured[i]) :
            captured[i][n].parent_id =
                IF n = 1 THEN NoEvent ELSE captured[i][n - 1].id

\* a Context with three events and an emission between two of them
C1_Witness ==
    \E i \in 1..Len(contexts) :
        /\ Len(captured[i]) >= 3
        /\ \E m \in 1..Len(emitted[i]) : emitted[i][m].step \in {1, 2}
        /\ captured[i][3].parent_id = captured[i][2].id

\* C2: root_event_id is absent until the first event of the Context is
\* captured and from then on is the id of that first event, whatever its kind
\* (HttpResponse included).
C2_RootIsFirstEvent ==
    \A i \in 1..Len(contexts) :
        contexts[i].root_id =
            IF Len(captured[i]) = 0 THEN NoEvent ELSE captured[i][1].id

\* C3: within one Context the own-component counter of each captured event's
\* causality_vector is strictly greater than that of the event before it.
C3_OwnCounterIncreases ==
    \A i \in 1..Len(contexts) :
        \A n \in 2..Len(captured[i]) :
            Counter(captured[i][n].causality_vector, OwnComponent(i))
                > Counter(captured[i][n - 1].causality_vector, OwnComponent(i))

\* a Context with two events and a header emission between them
C3_Witness ==
    \E i \in 1..Len(contexts) :
        /\ Len(captured[i]) >= 2
        /\ \E m \in 1..Len(emitted[i]) : emitted[i][m].step = 1
        /\ Counter(captured[i][2].causality_vector, OwnComponent(i))
             = Counter(captured[i][1].causality_vector, OwnComponent(i)) + 2

\* C4: every emission of propagation headers puts into the payload a clock in
\* which the own component's counter is the Context's previous value plus 1
\* (1 if the component was absent) and every other entry is unchanged, and
\* stores that clock back into the Context.
C4_EmitIncrementsOwn ==
    [][\A i \in 1..Len(contexts) :
          Len(emitted'[i]) = Len(emitted[i]) + 1 =>
              LET old == contexts[i].clock_vector
                  new == PayloadOf(emitted'[i][Len(emitted'[i])].headers).clock
                  own == OwnComponent(i)
              IN  /\ \A k \in 1..Len(old) :
                        /\ new[k][1] = old[k][1]
                        /\ new[k][2] = IF old[k][1] = own THEN old[k][2] + 1
                                       ELSE old[k][2]
                  /\ IF own \in ComponentsOf(old)
                     THEN Len(new) = Len(old)
                     ELSE Len(new) = Len(old) + 1 /\ new[Len(new)] = <<own, 1>>
                  /\ contexts'[i].clock_vector = new]_vars

\* an emission from a Context whose clock also holds another component, with
\* the own counter raised by the emission (HttpRequest event 1, emission 2)
C4_Witness ==
    \E i \in 1..Len(contexts) :
        /\ Len(emitted[i]) >= 1
        /\ emitted[i][1].step = 1
        /\ LET clock == PayloadOf(emitted[i][1].headers).clock
           IN  /\ ComponentsOf(clock) \ {OwnComponent(i)} # {}
               /\ Counter(clock, OwnComponent(i)) = 2

\* C5: emitting propagation headers leaves the Context's span_id, trace_id,
\* parent_event_id, root_event_id and local_step as they were; the emitted
\* traceparent and payload carry a child span id that is not the caller's
\* span_id and differs from the child id of every earlier emission.
C5_EmitKeepsSpan ==
    [][\A i \in 1..Len(contexts) :
          Len(emitted'[i]) = Len(emitted[i]) + 1 =>
              LET headers == emitted'[i][Len(emitted'[i])].headers
                  child == TraceparentSpan(headers)
              IN  /\ contexts'[i].span_id = contexts[i].span_id
                  /\ contexts'[i].trace_id = contexts[i].trace_id
                  /\ contexts'[i].parent_id = contexts[i].parent_id
                  /\ contexts'[i].root_id = contexts[i].root_id
                  /\ contexts'[i].clock = contexts[i].clock
                  /\ PayloadOf(headers).span_id = child
                  /\ PayloadOf(headers).parent_span_id = contexts[i].span_id
                  /\ child # contexts'[i].span_id
                  /\ \A m \in 1..Len(emitted[i]) :
                        TraceparentSpan(emitted[i][m].headers) # child]_vars

\* two sibling emissions from one Context that still has its own span_id
C5_Witness ==
    \E i \in 1..Len(contexts) :
        /\ Len(emitted[i]) >= 2
        /\ TraceparentSpan(emitted[i][1].headers) # TraceparentSpan(emitted[i][2].headers)
        /\ contexts[i].span_id = bound[i].span_id

\* contexts[i] was created by ingesting emitted headers
Ingested(i) == origin[i] # <<0, 0>>

\* the Context the headers of contexts[i] were emitted from, and the headers
SenderOf(i) == origin[i][1]

HeadersOf(i) == emitted[origin[i][1]][origin[i][2]].headers

\* C6: every Context's vector clock holds at most one entry per component id,
\* also after ingesting a payload that lists a component twice and after the
\* increments that follow.
C6_OneEntryPerComponent ==
    \A i \in 1..Len(contexts) :
        \A k1, k2 \in 1..Len(contexts[i].clock_vector) :
            k1 # k2 =>
                contexts[i].clock_vector[k1][1] # contexts[i].clock_vector[k2][1]

\* C7: the Context a receiver R builds from the headers emitted from a Context
\* c has c's trace_id, distributed true, every pair of the emitted clock, and
\* R's own component exactly once: with the payload's counter if the payload
\* has it, with 0 otherwise.
C7_ParseEmitAdoptsClock ==
    \A i \in 1..Len(contexts) :
        Ingested(i) =>
            LET clock == PayloadOf(HeadersOf(i)).clock
                mine == bound[i].clock_vector
                own == OwnComponent(i)
            IN  /\ bound[i].trace_id = contexts[SenderOf(i)].trace_id
                /\ bound[i].distributed
                /\ \A k \in 1..Len(clock) : mine[k] = clock[k]
                /\ Cardinality({k \in 1..Len(mine) : mine[k][1] = own}) = 1
                /\ Counter(mine, own) = Counter(clock, own)

\* C8: the Context a receiver builds from the headers emitted from a Context c
\* has parent_span_id equal to c.span_id.
C8_ParentSpanIsSenderSpan ==
    \A i \in 1..Len(contexts) :
        Ingested(i) => bound[i].parent_span_id = contexts[SenderOf(i)].span_id

RECURSIVE EventsBefore(_)
EventsBefore(i) ==
    IF ~Ingested(i) THEN {}
    ELSE LET j == origin[i][1]
             step == emitted[j][origin[i][2]].step
         IN  {captured[j][n] : n \in 1..step} \cup EventsBefore(j)

\* v <= w componentwise and v # w
HappensBefore(v, w) ==
    /\ \A c \in ComponentsOf(v) \cup ComponentsOf(w) : Counter(v, c) <= Counter(w, c)
    /\ \E c \in ComponentsOf(v) \cup ComponentsOf(w) : Counter(v, c) < Counter(w, c)
    /\ v # w

\* C10: if a Context was created by ingesting headers emitted from another
\* Context, the causality_vector of every event captured upstream before the
\* emission is componentwise <= and different from the causality_vector of
\* every event captured in the ingested Context, also across several hops.
C10_HappensBefore ==
    \A i \in 1..Len(contexts) :
        \A e \in EventsBefore(i) :
            \A n \in 1..Len(captured[i]) :
                HappensBefore(e.causality_vector, captured[i][n].causality_vector)

\* two hops: an event of the first Context, captured before its emission, and
\* an event of the Context two ingests downstream
C10_Witness ==
    \E i \in 1..Len(contexts) :
        /\ Ingested(i)
        /\ Ingested(SenderOf(i))
        /\ Len(captured[i]) >= 1
        /\ \E e \in EventsBefore(i) :
              e.metadata.thread_id = contexts[SenderOf(SenderOf(i))].execution_id

\* C11: every Tracker API operation called while no Context is bound returns
\* normally, appends no event to the buffer, starts no flush and leaves the
\* state of the client and of every Context unchanged.
C11_NoContextNoEffect ==
    [][(Len(calls') = Len(calls) + 1 /\ calls'[Len(calls')].op \in TrackerOps) =>
          /\ calls'[Len(calls')].outcome = "returned"
          /\ event_buffer' = event_buffer
          /\ flush_threads' = flush_threads
          /\ batches' = batches
          /\ UNCHANGED <<context_vars, running, auto_flush, shutdowns>>]_vars

\* two different Tracker operations were called without a Context on a client
\* whose buffer is one event short of batch_size and that has no flush pending
C11_Witness ==
    \E n1, n2 \in 1..Len(calls) :
        /\ calls[n1].op \in TrackerOps
        /\ calls[n2].op \in TrackerOps
        /\ calls[n1].op # calls[n2].op
        /\ calls[n1].client = calls[n2].client
        /\ Len(event_buffer[calls[n1].client]) = batch_size - 1
        /\ flush_threads[calls[n1].client] = 0

SameHeaders(h1, h2) ==
    /\ DOMAIN h1 = DOMAIN h2
    /\ \A name \in DOMAIN h1 : h1[name] = h2[name]

\* C12: propagation_headers called with no bound Context ends with an error
\* and returns no headers; request() called with no bound Context returns
\* normally and has sent exactly the headers its caller supplied.
C12_PropagationNeedsContext ==
    \A n \in 1..Len(calls) :
        /\ calls[n].op = "propagation_headers" =>
              /\ calls[n].outcome = "RuntimeError"
              /\ DOMAIN calls[n].headers = {}
        /\ calls[n].op = "request" =>
              /\ calls[n].outcome = "returned"
              /\ SameHeaders(calls[n].headers, calls[n].supplied)

\* both calls were made without a Context, request() with a header of its caller
C12_Witness ==
    \E n1, n2 \in 1..Len(calls) :
        /\ calls[n1].op = "propagation_headers"
        /\ calls[n1].outcome = "RuntimeError"
        /\ calls[n2].op = "request"
        /\ DOMAIN calls[n2].headers = {"x-custom"}

\* a traceparent value that is not four dash-separated segments with a trace
\* segment of 32 hex digits and a span segment of 16 hex digits
MalformedTraceparent(value) ==
    LET parts == Split(value, "-")
    IN  \/ Len(parts) # 4
        \/ ~(Len(parts[2]) = 32 /\ Chars(HexChars, parts[2]))
        \/ ~(Len(parts[3]) = 16 /\ Chars(HexChars, parts[3]))

\* the request brought this header and no other
OnlyHeader(headers, name) == DOMAIN headers = {name}

\* C13: ingesting a traceparent that does not have exactly four
\* dash-separated segments, or whose trace or span segment is not hex of the
\* required length, raises no error and, with no other header present, gives
\* a Context with a freshly generated trace_id, no parent_span_id and
\* distributed false.
C13_MalformedTraceparentIgnored ==
    /\ \A i \in 1..Len(contexts) :
          (/\ OnlyHeader(request_headers[i], TRACEPARENT_HEADER)
           /\ MalformedTraceparent(request_headers[i][TRACEPARENT_HEADER])) =>
              /\ bound[i].trace_id = TraceDraw(i)
              /\ bound[i].parent_span_id = NoSpan
              /\ ~bound[i].distributed
    /\ \A n \in 1..Len(calls) :
          (calls[n].op = "before_request"
             /\ OnlyHeader(calls[n].supplied, TRACEPARENT_HEADER)) =>
              ~MalformedTraceparent(calls[n].supplied[TRACEPARENT_HEADER])

\* a raceway-clock value that fails validation: no v1; prefix, not
\* base64url, not JSON, or JSON that is not an object with a "clock" list
InvalidClock(value) ==
    \/ value.prefix # CLOCK_VERSION_PREFIX
    \/ value.encoded.alphabet # "base64url"
    \/ value.encoded.text.syntax # "json"
    \/ value.encoded.text.type # "dict"
    \/ "clock" \notin DOMAIN value.encoded.text.value

\* C14: ingesting a raceway-clock header that fails validation never raises:
\* the header is ignored, distributed is not set by it, and the clock of the
\* resulting Context holds only the receiver's own component at 0.
C14_InvalidClockIgnored ==
    /\ \A i \in 1..Len(contexts) :
          (/\ OnlyHeader(request_headers[i], RACEWAY_CLOCK_HEADER)
           /\ InvalidClock(request_headers[i][RACEWAY_CLOCK_HEADER])) =>
              /\ ~bound[i].distributed
              /\ bound[i].clock_vector = << <<OwnComponent(i), 0>> >>
              /\ bound[i].trace_id = TraceDraw(i)
    /\ \A n \in 1..Len(calls) :
          (calls[n].op = "before_request"
             /\ HasHeader(calls[n].supplied, RACEWAY_CLOCK_HEADER)) =>
              ~InvalidClock(calls[n].supplied[RACEWAY_CLOCK_HEADER])

\* C15: on ingest a valid traceparent determines trace_id and parent_span_id
\* of the Context, also when a valid raceway-clock payload carries another
\* trace id; the payload's trace_id and sender span are adopted only when no
\* traceparent was present.
C15_TraceparentDeterminesTrace ==
    \A i \in 1..Len(contexts) :
        LET headers == request_headers[i]
        IN  /\ (HasHeader(headers, TRACEPARENT_HEADER)
                  /\ ~MalformedTraceparent(headers[TRACEPARENT_HEADER])) =>
                  LET parts == Split(headers[TRACEPARENT_HEADER], "-")
                  IN  /\ bound[i].trace_id = _traceparent_to_uuid(parts[2])
                      /\ bound[i].parent_span_id = parts[3]
            /\ (OnlyHeader(headers, RACEWAY_CLOCK_HEADER)
                  /\ ~InvalidClock(headers[RACEWAY_CLOCK_HEADER])) =>
                  /\ bound[i].trace_id = PayloadOf(headers).trace_id
                  /\ bound[i].parent_span_id = PayloadOf(headers).span_id

\* the places (batch, position) where event id e sits in the batches of client s
Placements(s, e) ==
    {<<k, n>> \in (1..Len(batches[s])) \X (1..ShipperEvents + 1) :
        n <= Len(batches[s][k].events) /\ batches[s][k].events[n] = e}

\* C16: under every interleaving of appends with timer-triggered,
\* size-triggered, manual and shutdown flushes, each captured event is in at
\* most one batch handed to a POST, and an event that is no longer in the
\* buffer is in a batch.
C16_AtMostOnceNoLoss ==
    \A i \in 1..Len(contexts) :
        \A n \in 1..Len(captured[i]) :
            LET e == captured[i][n].id
                s == owner[i]
            IN  /\ Cardinality(Placements(s, e)) <= 1
                /\ e \in Buffered(s) \/ Placements(s, e) # {}
                /\ ~(e \in Buffered(s) /\ Placements(s, e) # {})

\* all events of the unit were captured and left the buffer in two batches,
\* one drained by a thread started on reaching batch_size, one by shutdown
C16_Witness ==
    \E i \in 1..Len(contexts) :
        /\ Len(captured[i]) = ShipperEvents
        /\ event_buffer[owner[i]] = << >>
        /\ \E k1, k2 \in 1..Len(batches[owner[i]]) :
              /\ batches[owner[i]][k1].by = "size"
              /\ batches[owner[i]][k2].by = "shutdown"
              /\ batches[owner[i]][k1].status # "posting"

\* C17: whenever an append brings the buffer length to batch_size or more, a
\* thread running flush is started in that very call, whatever the timer
\* thread is doing, and the call itself drains and POSTs nothing.
C17_SizeTriggersFlushThread ==
    [][\A s \in Services :
          (Len(event_buffer'[s]) = Len(event_buffer[s]) + 1
             /\ Len(event_buffer'[s]) >= batch_size) =>
              /\ flush_threads'[s] = flush_threads[s] + 1
              /\ batches' = batches
              /\ auto_flush' = auto_flush]_vars

\* a batch drained by a size-triggered thread is still being POSTed while the
\* unit has already captured the next event
C17_Witness ==
    \E s \in Services :
        /\ event_buffer[s] # << >>
        /\ \E k \in 1..Len(batches[s]) :
              /\ batches[s][k].by = "size"
              /\ batches[s][k].status = "posting"
              /\ Len(batches[s][k].events) >= batch_size

\* the captured events of the unit of SpecShipperLive, by capture order
Sent(n) ==
    \E i \in 1..Len(contexts) :
        /\ Len(captured[i]) >= n
        /\ \E k \in 1..Len(batches[owner[i]]) :
              /\ batches[owner[i]][k].status # "posting"
              /\ \E m \in 1..Len(batches[owner[i]][k].events) :
                    batches[owner[i]][k].events[m] = captured[i][n].id

Appended(n) == \E i \in 1..Len(contexts) : Len(captured[i]) >= n

PostFailures == PostOutcomes \ {"200"}

\* C19: when the POST of a batch fails, flush returns to its caller (the
\* timer thread goes on with its loop, shutdown returns), the buffer is left
\* as it is, so it holds exactly the events appended after the drain, and
\* the batch is never POSTed again.  Event ids of one unit grow in capture
\* order.
C19_FailedPostDropsBatch ==
    [][\A s \in Services :
          \A k \in 1..Len(batches[s]) :
              /\ (batches[s][k].status = "posting"
                    /\ batches'[s][k].status \in PostFailures) =>
                    /\ event_buffer'[s] = event_buffer[s]
                    /\ \A n \in 1..Len(event_buffer'[s]) :
                          \A m \in 1..Len(batches[s][k].events) :
                              event_buffer'[s][n] > batches[s][k].events[m]
                    /\ Len(batches'[s]) = Len(batches[s])
                    /\ flush_threads'[s] = flush_threads[s]
                    /\ batches[s][k].by = "timer" =>
                          auto_flush'[s] = IF running[s] THEN "sleep" ELSE "stopped"
                    /\ batches[s][k].by = "shutdown" => shutdowns'[s].pc = "returned"
              /\ batches[s][k].status \in PostFailures =>
                    batches'[s][k] = batches[s][k]]_vars

\* a batch whose POST failed, and an event appended after its drain that a
\* later flush has POSTed
C19_Witness ==
    \E s \in Services :
        \E k1, k2 \in 1..Len(batches[s]) :
            /\ k1 < k2
            /\ batches[s][k1].status \in PostFailures
            /\ batches[s][k2].status = "200"

\* C20: when shutdown() has returned, every event that was in the buffer, or
\* drained by a flush still in progress, when shutdown was called is in a
\* batch whose POST attempt is over.
C20_ShutdownCompletesPosts ==
    \A s \in Services :
        shutdowns[s].pc = "returned" =>
            \A e \in shutdowns[s].pending :
                \E k \in 1..Len(batches[s]) :
                    /\ batches[s][k].status # "posting"
                    /\ \E m \in 1..Len(batches[s][k].events) :
                          batches[s][k].events[m] = e

\* the batches of client s that shutdown() calls have drained
ShutdownBatches(s) == {k \in 1..Len(batches[s]) : batches[s][k].by = "shutdown"}

\* C21: a further shutdown() that finds no event in the buffer sends no
\* batch, returns without an error and leaves the client as the first
\* shutdown() left it.
C21_ShutdownIdempotent ==
    [][\A s \in Services :
          shutdowns'[s].again = shutdowns[s].again + 1 /\ event_buffer[s] = << >> =>
              /\ batches' = batches
              /\ event_buffer' = event_buffer
              /\ running' = running
              /\ flush_threads' = flush_threads
              /\ auto_flush' = auto_flush
              /\ shutdowns'[s].pc = "returned"
              /\ shutdowns'[s].pending = shutdowns[s].pending]_vars

\* the first shutdown() drained a batch, and a second one was called on the
\* empty buffer
C21_Witness ==
    \E s \in Services :
        /\ shutdowns[s].again = 1
        /\ Cardinality(ShutdownBatches(s)) = 1
        /\ ~running[s]

\* C22: the buffer is bounded: it never holds more events than its
\* capacity, here the batch_size at which an append starts a flush.
C22_BufferBounded ==
    \A s \in Services : Len(event_buffer[s]) <= batch_size

\* C23: a client has one background thread, the _auto_flush thread: no
\* other thread is ever started, and every drain that is not the caller's
\* own flush() or shutdown() is made by that thread.
C23_OneBackgroundThread ==
    \A s \in Services :
        /\ flush_threads[s] = 0
        /\ \A k \in 1..Len(batches[s]) : batches[s][k].by \in {"timer", "manual", "shutdown"}

\* the batches of client s drained by the _auto_flush thread
TimerBatches(s) == {k \in 1..Len(batches[s]) : batches[s][k].by = "timer"}

\* C30: once running is cleared the _auto_flush thread drains at most one
\* more batch, after whose POST it stops; once stopped it never drains
\* again; and it does stop.
C30_WorkerTerminates ==
    /\ [][\A s \in Services :
            /\ ~running[s] /\ auto_flush[s] = "flush" =>
                  /\ auto_flush'[s] \in {"flush", "stopped"}
                  /\ TimerBatches(s)' = TimerBatches(s)
            /\ auto_flush[s] = "stopped" =>
                  /\ auto_flush'[s] = "stopped"
                  /\ TimerBatches(s)' = TimerBatches(s)
            /\ TimerBatches(s)' # TimerBatches(s) =>
                  auto_flush[s] = "sleep" /\ auto_flush'[s] = "flush"]_vars
    /\ \A s \in Services : ~running[s] ~> auto_flush[s] = "stopped"

\* the _auto_flush thread drained a batch after shutdown() had cleared
\* running, and has stopped
C30_Witness ==
    \E s \in Services :
        /\ auto_flush[s] = "stopped"
        /\ \E k \in TimerBatches(s) : \E j \in ShutdownBatches(s) : j < k

\* the lock events of the trail from its n-th event on, read against the
\* scopes `open` before it: a LockAcquire opens a scope, a LockRelease must
\* name the lock_id and lock_type of the innermost open one and closes it
RECURSIVE LockWalk(_, _)
LockWalk(n, open) ==
    IF n > Len(thread.trail) THEN [nested |-> TRUE, open |-> open]
    ELSE IF TrailEvent(n).kind.name = "LockAcquire"
    THEN LockWalk(n + 1, Append(open, TrailEvent(n).kind.data))
    ELSE IF TrailEvent(n).kind.name = "LockRelease"
    THEN IF open # << >> /\ Top(open) = TrailEvent(n).kind.data
         THEN LockWalk(n + 1, Pop(open))
         ELSE [nested |-> FALSE, open |-> open]
    ELSE LockWalk(n + 1, open)

\* the tracked_lock scopes the thread is inside, outermost first
LockFrames == SelectSeq(thread.frames, LAMBDA frame : frame.scope = "tracked_lock")

LockErrors == {n \in 1..Len(calls) : calls[n].op = "tracked_lock"}

\* C25: tracked_lock raises, without taking a lock, capturing an event or
\* changing the Context, when no Context is bound or when the object is no
\* lock; a scope is only entered with a Context bound and a usable lock.
C25_ScopedLockFailsFast ==
    [][/\ LockErrors' # LockErrors =>
            /\ locked' = locked
            /\ captured' = captured
            /\ contexts' = contexts
            /\ event_buffer' = event_buffer
            /\ thread' = thread
       /\ LockFrames' # LockFrames /\ Len(LockFrames') > Len(LockFrames) =>
            /\ thread.current # 0
            /\ Top(LockFrames').lock.protocol # "none"
       /\ locked' # locked => LockFrames' # LockFrames]_vars

\* tracked_lock has raised RuntimeError on the unbound thread and TypeError,
\* inside an open scope, for the object that is no lock
C25_Witness ==
    /\ \E n \in LockErrors : calls[n].outcome = "RuntimeError"
    /\ \E n \in LockErrors : calls[n].outcome = "TypeError"
    /\ LockFrames # << >>

\* C26: when a function decorated with raceway_context returns or raises,
\* the Context that was bound before it was entered (possibly none) is bound
\* again, also when decorated functions nest.
C26_BindingScoped ==
    [][thread.frames # << >> /\ thread'.frames = Pop(thread.frames)
         /\ Top(thread.frames).scope = "raceway_context" =>
            thread'.current = Top(thread.frames).before]_vars

\* C27: after the middleware has captured HttpResponse for a request, a
\* Tracker call on the same thread before the next request captures no event.
C27_UnboundAfterRequest ==
    [][thread.frames = << >> /\ thread.left.scope = "request"
         /\ thread'.frames = << >> =>
            captured' = captured]_vars

C29_CallerHeadersWin ==
    [][Len(calls') = Len(calls) + 1 =>
          \E call \in {calls'[Len(calls')]} :
          \E i \in {n \in 1..Len(contexts) : emitted'[n] # emitted[n]} :
              /\ DOMAIN call.headers = DOMAIN call.generated \cup DOMAIN call.supplied
              /\ \A name \in DOMAIN call.supplied :
                    call.headers[name] = call.supplied[name]
              /\ \A name \in DOMAIN call.generated \ DOMAIN call.supplied :
                    call.headers[name] = call.generated[name]
              /\ Counter(contexts'[i].clock_vector, OwnComponent(i))
                    = Counter(contexts[i].clock_vector, OwnComponent(i)) + 1]_vars

\* a request() and a propagation_headers() call whose caller named
\* traceparent: the caller's value was sent, the generated raceway-clock kept
C29_Witness ==
    \E a, b \in 1..Len(calls) :
        /\ calls[a].op = "request"
        /\ calls[b].op = "propagation_headers"
        /\ \A n \in {a, b} :
              /\ TRACEPARENT_HEADER \in DOMAIN calls[n].supplied
              /\ calls[n].headers[TRACEPARENT_HEADER] = EXPLICIT_TRACEPARENT
              /\ calls[n].generated[TRACEPARENT_HEADER] # EXPLICIT_TRACEPARENT
              /\ RACEWAY_CLOCK_HEADER \in DOMAIN calls[n].headers

\* a traceparent value in which a segment fails validation: not four
\* segments, or a version, trace, span or flags segment that is not hex of
\* its length
InvalidTraceparent(value) ==
    LET parts == Split(value, "-")
    IN  \/ MalformedTraceparent(value)
        \/ ~(Len(parts[1]) = 2 /\ Chars(HexChars, parts[1]))
        \/ ~(Len(parts[4]) = 2 /\ Chars(HexChars, parts[4]))

\* the request brought a traceparent or a raceway-clock that passes validation
ValidUpstream(headers) ==
    \/ /\ HasHeader(headers, TRACEPARENT_HEADER)
       /\ ~InvalidTraceparent(headers[TRACEPARENT_HEADER])
    \/ /\ HasHeader(headers, RACEWAY_CLOCK_HEADER)
       /\ ~InvalidClock(headers[RACEWAY_CLOCK_HEADER])

\* C31: a Context is distributed exactly when it was created from a request
\* with a valid traceparent or a valid raceway-clock, or headers have been
\* emitted from it; at its creation exactly when the request had such a
\* header.  (Captures change neither side, and neither side becomes false.)
C31_DistributedFlag ==
    \A i \in 1..Len(contexts) :
        /\ bound[i].distributed <=> ValidUpstream(request_headers[i])
        /\ contexts[i].distributed <=>
              (ValidUpstream(request_headers[i]) \/ emitted[i] # << >>)

\* C36: a traceparent in which any of the four segments fails validation,
\* the version and the flags included, is ignored: with no other header the
\* Context gets a fresh trace_id, no parent_span_id and distributed false.
\* Stated for the headers whose four segments are there and whose trace and
\* span are well-formed, the others being the case of C13.
C36_AllSegmentsValidated ==
    \A i \in 1..Len(contexts) :
        (/\ OnlyHeader(request_headers[i], TRACEPARENT_HEADER)
         /\ ~MalformedTraceparent(request_headers[i][TRACEPARENT_HEADER])
         /\ InvalidTraceparent(request_headers[i][TRACEPARENT_HEADER])) =>
            /\ bound[i].trace_id = TraceDraw(i)
            /\ bound[i].parent_span_id = NoSpan
            /\ ~bound[i].distributed

\* the Contexts whose emitted headers led, directly or through further hops,
\* to contexts[i]
RECURSIVE Upstream(_)
Upstream(i) ==
    IF ~Ingested(i) THEN {} ELSE {SenderOf(i)} \cup Upstream(SenderOf(i))

\* v <= w componentwise
VectorLeq(v, w) ==
    \A c \in ComponentsOf(v) \cup ComponentsOf(w) : Counter(v, c) <= Counter(w, c)

\* C38: two events captured in different Contexts of one process, neither of
\* which was created from headers emitted (directly or transitively) by the
\* other, carry causality vectors neither of which is componentwise <= the
\* other; and no two distinct events carry identical causality vectors.
C38_ConcurrentContextsUnordered ==
    \A i, j \in 1..Len(contexts) :
        (i # j /\ owner[i] = owner[j] /\ i \notin Upstream(j) /\ j \notin Upstream(i)) =>
            \A n \in 1..Len(captured[i]), m \in 1..Len(captured[j]) :
                /\ ~VectorLeq(captured[i][n].causality_vector,
                              captured[j][m].causality_vector)
                /\ captured[i][n].causality_vector # captured[j][m].causality_vector

\* C32: the causality_vector stored in a captured event is the full Context
\* clock as it is immediately after the pre-capture increment (the own
\* component one more than before, every other component as before), and no
\* step, later captures and header emissions on the same Context included,
\* alters the vector of an event captured earlier.
C32_VectorIsClockSnapshot ==
    [][\A i \in 1..Len(captured) :
          /\ \A n \in 1..Len(captured[i]) :
                captured'[i][n].causality_vector = captured[i][n].causality_vector
          /\ Len(captured'[i]) = Len(captured[i]) + 1 =>
                LET vector == captured'[i][Len(captured'[i])].causality_vector
                IN  /\ vector = contexts'[i].clock_vector
                    /\ ComponentsOf(vector) =
                          ComponentsOf(contexts[i].clock_vector) \cup {OwnComponent(i)}
                    /\ \A c \in ComponentsOf(vector) :
                          Counter(vector, c) = Counter(contexts[i].clock_vector, c)
                                                + (IF c = OwnComponent(i) THEN 1 ELSE 0)]_vars

\* an ingested Context whose first event holds its own and the upstream
\* component, followed by a later capture and an emission that moved the clock
C32_Witness ==
    \E i \in 1..Len(contexts) :
        /\ Ingested(i)
        /\ Len(captured[i]) >= 2
        /\ Len(emitted[i]) >= 1
        /\ Cardinality(ComponentsOf(captured[i][1].causality_vector)) >= 2
        /\ captured[i][1].causality_vector # contexts[i].clock_vector

FromRequest(i) == bound[i].clock_vector # << >>

RECURSIVE DecoratedWalk(_, _)
DecoratedWalk(n, open) ==
    IF n > Len(thread.trail) THEN [nested |-> TRUE, open |-> open]
    ELSE IF TrailEvent(n).kind.name # "FunctionCall"
    THEN DecoratedWalk(n + 1, open)
    ELSE LET function_name == TrailEvent(n).kind.data.function_name
         IN  IF function_name[2] \in {"", ":spawn"}
             THEN DecoratedWalk(n + 1, Append(open, function_name))
             ELSE IF /\ open # << >>
                     /\ Top(open)[1] = function_name[1]
                     /\ function_name[2] \in
                           {IF Top(open)[2] = ":spawn" THEN ":await" ELSE ":return", ":error"}
             THEN DecoratedWalk(n + 1, Pop(open))
             ELSE [nested |-> FALSE, open |-> open]

\* the decorated calls the thread is inside that are tracked, outermost first
TrackedFrames == SelectSeq(DecoratedFrames, LAMBDA frame : frame.tracked)

\* the function_name of the event the thread captured last
LastFunctionName == TrailEvent(Len(thread.trail)).kind.data.function_name

C37_SharedContextSingleChain ==
    \A i \in 1..Len(contexts) :
        /\ \A n, m \in 1..Len(captured[i]) :
              n # m =>
                  /\ captured[i][n].parent_id # captured[i][m].parent_id
                  /\ Counter(captured[i][n].causality_vector, OwnComponent(i))
                        # Counter(captured[i][m].causality_vector, OwnComponent(i))
        /\ (\A t \in Threads : workers[t].pc = "idle") =>
              contexts[i].clock = Len(captured[i])

\* the Context that captured the event with this id, and the event
CapturedBy(event_id) == event_id \div 16

EventOf(event_id) == captured[event_id \div 16][event_id % 16]

\* the events of `buffer` from its n-th on, read against the Context that
\* holds the lock before it (0 for none): a LockAcquire needs the lock free,
\* a LockRelease the lock held by its own Context
RECURSIVE HolderWalk(_, _, _)
HolderWalk(buffer, n, holder) ==
    IF n > Len(buffer) THEN TRUE
    ELSE IF EventOf(buffer[n]).kind.name = "LockAcquire"
    THEN holder = 0 /\ HolderWalk(buffer, n + 1, CapturedBy(buffer[n]))
    ELSE IF EventOf(buffer[n]).kind.name = "LockRelease"
    THEN holder = CapturedBy(buffer[n]) /\ HolderWalk(buffer, n + 1, 0)
    ELSE HolderWalk(buffer, n + 1, holder)

\* C39: when threads with Contexts of their own use tracked_lock on the same
\* lock, the LockAcquire and LockRelease events of the lock alternate in the
\* order in which they were appended to the buffer: no LockAcquire of one
\* holder lies between the LockAcquire and the LockRelease of another.
C39_LockEventsAlternate ==
    \A s \in Services : HolderWalk(event_buffer[s], 1, 0)

\* one thread has been through the scope, the other holds the lock and has
\* captured its LockAcquire while the first is waiting in lock.acquire() again
C39_Witness ==
    \E s \in Services, t, u \in Threads :
        /\ Len(event_buffer[s]) = 3
        /\ CapturedBy(event_buffer[s][1]) = ContextOf(t)
        /\ CapturedBy(event_buffer[s][3]) = ContextOf(u)
        /\ t # u
        /\ workers[t].pc = "acquire"
        /\ workers[u].pc = "body"

====
